---------------------------- MODULE Spec2Model ----------------------------
(***************************************************************************)
(* A model of go-testbuilder: the mixed-radix IndexCounter, the registry   *)
(* of TestCaseSets, GenerateTestSets, the Tests() iterator and the build   *)
(* closures it yields.                                                     *)
(*                                                                         *)
(* Go slices are 0-based, TLA+ sequences are 1-based: position p of the    *)
(* model is index p-1 of the code.  Index VALUES (currIndexes[i]) keep the *)
(* code's 0-based values.                                                  *)
(***************************************************************************)
EXTENDS Integers, Sequences, FiniteSets, TLC

(***************************************************************************)
(* Bounds of the model.                                                    *)
(***************************************************************************)
\* longest radix list the counter specification starts from
MaxDims == 4
\* largest radix in a radix list of the counter specification
MaxRadix == 3
\* largest number of tuples of a radix list of the counter specification
MaxTuples == 36
\* AddOne calls made after the call that returned true
MaxExtraCalls == 2
\* TestCase objects a behaviour registers (Register + RegisterAlternative)
MaxCases == 3
\* With* mutator calls a behaviour makes
MaxWith == 2
\* invocations of emitted build closures a behaviour makes
MaxBuilds == 2
\* TestCase objects of the largest registry GenerateTestSets is called on
MaxGenCases == 5
\* TestCase objects of the registries mutated while their pairs are built
MaxLateCases == 2
\* items of the longest slice TestDataFromSlice is called on
MaxItems == 4
\* TestDataFromSlice calls a behaviour makes
MaxSliceCalls == 2

VARIABLES
    \* ---- IndexCounter (SpecCounter) ----
    alternativeCountList,   \* IndexCounter.alternativeCountList
    currIndexes,            \* IndexCounter.currIndexes
    returned,               \* history: the value each AddOne call returned
    visited,                \* history: the tuple read before each AddOne call
    labels,                 \* history: String() read before each AddOne call
    \* ---- TestsBuilder (Spec) ----
    heap,                   \* the TestCase objects allocated so far; a *TestCase is
                            \* an index into heap
    TestCaseSets,           \* TestsBuilder.TestCaseSets: per stage, its
                            \* TestAlternatives as a sequence of *TestCase
    lastCall,               \* the last registration or mutator call and what it
                            \* returned
    withCalls,              \* number of With* calls made so far
    generated,              \* what the last direct GenerateTestSets() call returned
    iter,                   \* the iterator function returned by Tests(): where
                            \* its body stands; from: the number of pairs emitted
                            \* before the current range over it started
    emitted,                \* the (name, build) pairs handed to yield so far
    yieldReturned,          \* history: what each yield call returned to the
                            \* iterator body (false: the consumer stops)
    builds,                 \* the invocations of build closures, running or
                            \* returned
    setupCalls,             \* history: number of calls of user-supplied setup
                            \* functions made so far, by whatever code
    heapAtYield,            \* history: for each emitted pair, the TestCase
                            \* objects as they were when it was handed to yield
    \* ---- testslicebuilder (SpecSlice) ----
    tests,                  \* the []TableTestItem a table test passes
    sliceCalls              \* history: the TestDataFromSlice calls made, each
                            \* with its index and what it returned

ctrVars == <<alternativeCountList, currIndexes, returned, visited, labels>>

regVars == <<heap, TestCaseSets, lastCall, withCalls>>

runVars == <<generated, iter, emitted, yieldReturned, builds, setupCalls,
            heapAtYield>>

sliceVars == <<tests, sliceCalls>>

vars == <<ctrVars, regVars, runVars, sliceVars>>

(***************************************************************************)
(* Arithmetic helpers.                                                     *)
(***************************************************************************)
RECURSIVE ProductUpTo(_, _)
\* radix[1] * ... * radix[n]
ProductUpTo(radix, n) ==
    IF n = 0 THEN 1 ELSE radix[n] * ProductUpTo(radix, n - 1)

Product(radix) == ProductUpTo(radix, Len(radix))

RECURSIVE TuplesUpTo(_, _)
TuplesUpTo(radix, n) ==
    IF n = 0 THEN {<<>>}
    ELSE {Append(t, v) : t \in TuplesUpTo(radix, n - 1), v \in 0..(radix[n] - 1)}

\* every tuple (i_1..i_n) with 0 <= i_k < radix_k
AllTuples(radix) == TuplesUpTo(radix, Len(radix))

MinOf(a, b) == IF a < b THEN a ELSE b

Zeros(n) == [i \in 1..n |-> 0]

Last(s) == s[Len(s)]

(***************************************************************************)
(* strconv.Itoa for the non-negative numbers the counter holds.            *)
(***************************************************************************)
Digit(d) ==
    CASE d = 0 -> "0" [] d = 1 -> "1" [] d = 2 -> "2" [] d = 3 -> "3"
      [] d = 4 -> "4" [] d = 5 -> "5" [] d = 6 -> "6" [] d = 7 -> "7"
      [] d = 8 -> "8" [] d = 9 -> "9"

RECURSIVE Itoa(_)
Itoa(n) == IF n < 10 THEN Digit(n) ELSE Itoa(n \div 10) \o Digit(n % 10)

(***************************************************************************)
(* IndexCounter.                                                           *)
(***************************************************************************)
\* NewCurrIndexes: make([]int, length), every entry (re)set to 0
NewCurrIndexes(radix) ==
    [currIndexes |-> [i \in 1..Len(radix) |-> 0],
     alternativeCountList |-> radix]

RECURSIVE ScanIncreaseOffByOne(_, _, _)
\* mutant: the first loop compares with alternativeCountList[i]
ScanIncreaseOffByOne(idx, radix, i) ==
    IF i > Len(idx) THEN 0
    ELSE IF idx[i] < radix[i] THEN i
    ELSE ScanIncreaseOffByOne(idx, radix, i + 1)

RECURSIVE ScanIncrease(_, _, _)
\* AddOne's first loop: the first position i (scanning upwards from i) with
\* currIndex < alternativeCountList[i] - 1, or 0 when the loop ends without
\* a break (isDone stays true)
ScanIncrease(idx, radix, i) ==
    IF i > Len(idx) THEN 0
    ELSE IF idx[i] < radix[i] - 1 THEN i
    ELSE ScanIncrease(idx, radix, i + 1)

\* mutant: on completion the tuple wraps back to all-zero
AddOneWraps(idx, radix) ==
    LET p == ScanIncrease(idx, radix, 1) IN
    [currIndexes |->
        [i \in 1..Len(idx) |->
            IF p = 0 THEN 0
            ELSE IF i < p THEN 0
            ELSE IF i = p THEN idx[i] + 1
            ELSE idx[i]],
     isDone |-> p = 0]

\* mutant: the positions below the increased one are not reset
AddOneNoReset(idx, radix) ==
    LET p == ScanIncrease(idx, radix, 1) IN
    [currIndexes |->
        [i \in 1..Len(idx) |-> IF i = p THEN idx[i] + 1 ELSE idx[i]],
     isDone |-> p = 0]

RECURSIVE ScanIncreaseDown(_, _, _)
ScanIncreaseDown(idx, radix, i) ==
    IF i < 1 THEN 0
    ELSE IF idx[i] < radix[i] - 1 THEN i
    ELSE ScanIncreaseDown(idx, radix, i - 1)

\* mutant: the last position is the least significant digit
AddOneHighFirst(idx, radix) ==
    LET p == ScanIncreaseDown(idx, radix, Len(idx)) IN
    [currIndexes |->
        [i \in 1..Len(idx) |->
            IF p = 0 THEN idx[i]
            ELSE IF i > p THEN 0
            ELSE IF i = p THEN idx[i] + 1
            ELSE idx[i]],
     isDone |-> p = 0]

\* mutant: the second loop runs over every position but the increased one
AddOneClearsOthers(idx, radix) ==
    LET p == ScanIncrease(idx, radix, 1) IN
    [currIndexes |->
        [i \in 1..Len(idx) |->
            IF p = 0 THEN idx[i]
            ELSE IF i = p THEN idx[i] + 1
            ELSE 0],
     isDone |-> p = 0]

\* AddOne: p is increasedIndex + 1 when the first loop breaks, 0 otherwise
\* (increasedIndex stays 0 and the second loop resets nothing).
AddOne(idx, radix) ==
    LET p == ScanIncrease(idx, radix, 1) IN
    [currIndexes |->
        [i \in 1..Len(idx) |->
            IF p = 0 THEN idx[i]
            ELSE IF i < p THEN 0
            ELSE IF i = p THEN idx[i] + 1
            ELSE idx[i]],
     isDone |-> p = 0]

RECURSIVE StringFrom(_, _)
StringFrom(idx, i) ==
    IF i > Len(idx) THEN "" ELSE Itoa(idx[i]) \o StringFrom(idx, i + 1)

RECURSIVE StringPaddedFrom(_, _)
StringPaddedFrom(idx, i) ==
    IF i > Len(idx) THEN ""
    ELSE (IF idx[i] < 10 THEN "0" ELSE "") \o Itoa(idx[i]) \o StringPaddedFrom(idx, i + 1)

\* mutant: every index is written two characters wide, as fmt's %02d does
StringPadded(idx) == StringPaddedFrom(idx, 1)

\* IndexCounter.String: strconv.Itoa of every index, written in order
String(idx) == StringFrom(idx, 1)

(***************************************************************************)
(* User-supplied values.  SUT is a string and STATE an int, as in          *)
(* testbuilder_test.go; a setup function is one of a few deterministic     *)
(* functions of (sut, state); ASSERT is an opaque payload.                 *)
(***************************************************************************)
\* a nil func field
NilFunc == [op |-> "nil", arg |-> ""]

\* func(t, sut, state) { *sut += c; *state += 1 }
AppendFunc(c) == [op |-> "append", arg |-> c]

\* func(t, sut, state) { *sut = c }
SetFunc(c) == [op |-> "set", arg |-> c]

\* func(t, sut, state) { panic(c) }
PanicFunc(c) == [op |-> "panic", arg |-> c]

\* the setup functions a caller passes to a With* mutator under Spec
UserFuncs == {AppendFunc("a"), SetFunc("-"), NilFunc}

\* calling the non-nil setup function f with (t, &sut, &state)
Apply(f, loc) ==
    CASE f.op = "append" -> [sut |-> loc.sut \o f.arg, state |-> loc.state + 1]
      [] f.op = "set" -> [sut |-> f.arg, state |-> loc.state]

\* the zero value of ASSERT, and the payloads a caller passes
ZeroAssert == "none"

AssertVals == {"assert1", "assert2"}

Names == {"A", "B"}

\* var sut SUT; var state STATE (TestData.Assert is the field Assert_ here)
ZeroLocals == [sut |-> "", state |-> 0]

(***************************************************************************)
(* Registration: Register, RegisterAlternative and the With* mutators.     *)
(***************************************************************************)
\* &TestCase{TestName: name}
NewTestCase(name) ==
    [TestName |-> name, StateBuilder |-> NilFunc, SpecificBuilder |-> NilFunc,
     Assertion |-> ZeroAssert]

InitBuilder ==
    /\ heap = <<>>
    /\ TestCaseSets = <<>>
    /\ lastCall = [op |-> "none", name |-> "", builder |-> NilFunc,
                   assertion |-> ZeroAssert, ret |-> 0, panic |-> FALSE]
    /\ withCalls = 0
    /\ generated = [called |-> FALSE, sets |-> <<>>, testSets |-> <<>>]
    /\ iter = [pc |-> "none", testSets |-> <<>>, s |-> 0, i |-> 0, nStages |-> 0, from |-> 0]
    /\ emitted = <<>>
    /\ heapAtYield = <<>>
    /\ yieldReturned = <<>>
    /\ builds = <<>>
    /\ setupCalls = 0

\* mutant: the new TestCaseSet is appended without its TestCase
RegisterEmptySet(name) ==
    /\ Len(heap) < MaxCases
    /\ LET testcase == Len(heap) + 1 IN
        /\ heap' = Append(heap, NewTestCase(name))
        /\ TestCaseSets' = Append(TestCaseSets, <<>>)
        /\ lastCall' = [op |-> "Register", name |-> name, builder |-> NilFunc,
                         assertion |-> ZeroAssert, ret |-> testcase, panic |-> FALSE]
    /\ UNCHANGED <<sliceVars, ctrVars, withCalls, runVars>>

\* mutant: the new TestCaseSet is put in front of the existing ones
RegisterPrepends(name) ==
    /\ Len(heap) < MaxCases
    /\ LET testcase == Len(heap) + 1 IN
        /\ heap' = Append(heap, NewTestCase(name))
        /\ TestCaseSets' = <<<<testcase>>>> \o TestCaseSets
        /\ lastCall' = [op |-> "Register", name |-> name, builder |-> NilFunc,
                         assertion |-> ZeroAssert, ret |-> testcase, panic |-> FALSE]
    /\ UNCHANGED <<sliceVars, ctrVars, withCalls, runVars>>

Register(name) ==
    /\ Len(heap) < MaxCases
    /\ LET testcase == Len(heap) + 1 IN
        /\ heap' = Append(heap, NewTestCase(name))
        /\ TestCaseSets' = Append(TestCaseSets, <<testcase>>)
        /\ lastCall' = [op |-> "Register", name |-> name, builder |-> NilFunc,
                         assertion |-> ZeroAssert, ret |-> testcase, panic |-> FALSE]
    /\ UNCHANGED <<sliceVars, ctrVars, withCalls, runVars>>

\* mutant: with no TestCaseSet yet the alternative opens the first one
\* instead of panicking
RegisterAlternativeOpensSet(name) ==
    /\ Len(heap) < MaxCases
    /\ LET testcase == Len(heap) + 1
           latest == Len(TestCaseSets)
       IN
        /\ heap' = Append(heap, NewTestCase(name))
        /\ TestCaseSets' =
              IF latest = 0 THEN <<<<testcase>>>>
              ELSE [TestCaseSets EXCEPT ![latest] = Append(@, testcase)]
        /\ lastCall' = [op |-> "RegisterAlternative", name |-> name,
                         builder |-> NilFunc, assertion |-> ZeroAssert,
                         ret |-> testcase, panic |-> FALSE]
    /\ UNCHANGED <<sliceVars, ctrVars, withCalls, runVars>>

\* mutant: the alternative is appended to the first TestCaseSet, not to the
\* latest one
RegisterAlternativeFirstSet(name) ==
    IF Len(TestCaseSets) = 0
    THEN /\ lastCall' = [op |-> "RegisterAlternative", name |-> name, builder |-> NilFunc,
                         assertion |-> ZeroAssert, ret |-> 0, panic |-> TRUE]
         /\ UNCHANGED <<sliceVars, ctrVars, heap, TestCaseSets, withCalls, runVars>>
    ELSE /\ Len(heap) < MaxCases
         /\ LET testcase == Len(heap) + 1 IN
             /\ heap' = Append(heap, NewTestCase(name))
             /\ TestCaseSets' = [TestCaseSets EXCEPT ![1] = Append(@, testcase)]
             /\ lastCall' = [op |-> "RegisterAlternative", name |-> name, builder |-> NilFunc,
                              assertion |-> ZeroAssert, ret |-> testcase, panic |-> FALSE]
         /\ UNCHANGED <<sliceVars, ctrVars, withCalls, runVars>>

\* the panic leaves the builder as it was and returns nothing; the TestCase
\* allocated before the check is unreachable
RegisterAlternative(name) ==
    IF Len(TestCaseSets) = 0
    THEN /\ lastCall' = [op |-> "RegisterAlternative", name |-> name, builder |-> NilFunc,
                         assertion |-> ZeroAssert, ret |-> 0, panic |-> TRUE]
         /\ UNCHANGED <<sliceVars, ctrVars, heap, TestCaseSets, withCalls, runVars>>
    ELSE /\ Len(heap) < MaxCases
         /\ LET testcase == Len(heap) + 1
                latest == Len(TestCaseSets)
            IN
             /\ heap' = Append(heap, NewTestCase(name))
             /\ TestCaseSets' =
                   [TestCaseSets EXCEPT ![latest] = Append(@, testcase)]
             /\ lastCall' = [op |-> "RegisterAlternative", name |-> name, builder |-> NilFunc,
                              assertion |-> ZeroAssert, ret |-> testcase, panic |-> FALSE]
         /\ UNCHANGED <<sliceVars, ctrVars, withCalls, runVars>>

WithStateBuilder(ts, f) ==
    /\ withCalls < MaxWith
    /\ heap' = [heap EXCEPT ![ts].StateBuilder = f]
    /\ lastCall' = [op |-> "WithStateBuilder", name |-> "", builder |-> f,
                    assertion |-> ZeroAssert, ret |-> ts, panic |-> FALSE]
    /\ withCalls' = withCalls + 1
    /\ UNCHANGED <<sliceVars, ctrVars, TestCaseSets, runVars>>

\* mutant: the function is stored in the StateBuilder field
WithSpecificBuilderSetsStateBuilder(ts, f) ==
    /\ withCalls < MaxWith
    /\ heap' = [heap EXCEPT ![ts].StateBuilder = f]
    /\ lastCall' = [op |-> "WithSpecificBuilder", name |-> "", builder |-> f,
                    assertion |-> ZeroAssert, ret |-> ts, panic |-> FALSE]
    /\ withCalls' = withCalls + 1
    /\ UNCHANGED <<sliceVars, ctrVars, TestCaseSets, runVars>>

WithSpecificBuilder(ts, f) ==
    /\ withCalls < MaxWith
    /\ heap' = [heap EXCEPT ![ts].SpecificBuilder = f]
    /\ lastCall' = [op |-> "WithSpecificBuilder", name |-> "", builder |-> f,
                    assertion |-> ZeroAssert, ret |-> ts, panic |-> FALSE]
    /\ withCalls' = withCalls + 1
    /\ UNCHANGED <<sliceVars, ctrVars, TestCaseSets, runVars>>

WithAssertion(ts, f) ==
    /\ withCalls < MaxWith
    /\ heap' = [heap EXCEPT ![ts].Assertion = f]
    /\ lastCall' = [op |-> "WithAssertion", name |-> "", builder |-> NilFunc,
                    assertion |-> f, ret |-> ts, panic |-> FALSE]
    /\ withCalls' = withCalls + 1
    /\ UNCHANGED <<sliceVars, ctrVars, TestCaseSets, runVars>>

(***************************************************************************)
(* GenerateTestSets.                                                       *)
(***************************************************************************)
\* the first loop: alternativeCountList
AlternativeCounts(sets) == [k \in 1..Len(sets) |-> Len(sets[k])]

\* mutant: "numAlternatives > 1" is "numAlternatives >= 1"
MoreThanOneAlternativeFromOne(sets) == \E k \in 1..Len(sets) : Len(sets[k]) >= 1

\* the first loop: moreThanOneAlternative
MoreThanOneAlternative(sets) == \E k \in 1..Len(sets) : Len(sets[k]) > 1

\* mutant: the first alternative of every set, whatever the indexes
PickFirstAlternatives(sets, indexes) ==
    [setIdx \in 1..Len(sets) |-> sets[setIdx][1]]

\* the inner loop: testcaseSet.TestAlternatives[indexes[setIdx]] of every set
PickTestCases(sets, indexes) ==
    [setIdx \in 1..Len(sets) |-> sets[setIdx][indexes[setIdx] + 1]]

\* mutant: the all-zero combination is taken for "no alternatives" and gets
\* no TestSetName
NewTestSetZeroUnnamed(sets, indexes) ==
    [TestCases |-> PickTestCases(sets, indexes),
     TestSetName |->
        IF MoreThanOneAlternative(sets) /\ indexes # Zeros(Len(indexes))
        THEN String(indexes) ELSE ""]

\* one pass of "for !isDone": the TestSet built for the current indexes
NewTestSet(sets, indexes) ==
    [TestCases |-> PickTestCases(sets, indexes),
     TestSetName |->
        IF MoreThanOneAlternative(sets) THEN String(indexes) ELSE ""]

RECURSIVE GenerateLoopPrepends(_, _, _)
\* mutant: a new TestSet is put in front of the ones generated before it
GenerateLoopPrepends(sets, indexes, testSets) ==
    LET appended == <<NewTestSet(sets, indexes)>> \o testSets
        r == AddOne(indexes, AlternativeCounts(sets))
    IN IF r.isDone THEN appended
       ELSE GenerateLoopPrepends(sets, r.currIndexes, appended)

RECURSIVE GenerateLoop(_, _, _)
\* "for !isDone": the body runs, then AddOne decides whether it runs again
GenerateLoop(sets, indexes, testSets) ==
    LET appended == Append(testSets, NewTestSet(sets, indexes))
        r == AddOne(indexes, AlternativeCounts(sets))
    IN IF r.isDone THEN appended
       ELSE GenerateLoop(sets, r.currIndexes, appended)

\* mutant: "for !isDone" is skipped when there is no TestCaseSet
GenerateTestSetsSkipsEmpty(sets) ==
    IF sets = <<>> THEN <<>>
    ELSE GenerateLoop(sets, NewCurrIndexes(AlternativeCounts(sets)).currIndexes, <<>>)

GenerateTestSets(sets) ==
    GenerateLoop(sets, NewCurrIndexes(AlternativeCounts(sets)).currIndexes, <<>>)

\* mutant: the alternatives of every stage are reversed in place before the
\* combinations are generated
GenerateTestSetsCallReverses ==
    LET reversed == [k \in 1..Len(TestCaseSets) |->
                        [a \in 1..Len(TestCaseSets[k]) |->
                            TestCaseSets[k][Len(TestCaseSets[k]) + 1 - a]]]
    IN /\ TestCaseSets' = reversed
       /\ generated' = [called |-> TRUE, sets |-> reversed,
                        testSets |-> GenerateTestSets(reversed)]
       /\ UNCHANGED <<sliceVars, ctrVars, heap, lastCall, withCalls, iter, emitted,
                      heapAtYield, yieldReturned, builds, setupCalls>>

GenerateTestSetsCall ==
    /\ generated' = [called |-> TRUE, sets |-> TestCaseSets,
                     testSets |-> GenerateTestSets(TestCaseSets)]
    /\ UNCHANGED <<sliceVars, ctrVars, regVars, iter, emitted, heapAtYield, yieldReturned, builds, setupCalls>>

(***************************************************************************)
(* Tests(): the iterator function and the pairs it yields.                 *)
(***************************************************************************)
\* Tests() only builds the iterator function
TestsCall ==
    /\ iter.pc = "none"
    /\ iter' = [iter EXCEPT !.pc = "created"]
    /\ UNCHANGED <<sliceVars, ctrVars, regVars, generated, emitted, heapAtYield, yieldReturned, builds,
                   setupCalls>>

RECURSIVE NextYield(_, _, _)
\* the two range loops from test set s, position i on: where the next yield
\* call is made, or that both loops have ended
NextYield(testSets, s, i) ==
    IF s > Len(testSets) THEN [pc |-> "done", s |-> s, i |-> i]
    ELSE IF i > Len(testSets[s].TestCases) THEN NextYield(testSets, s + 1, 1)
    ELSE [pc |-> "yielded", s |-> s, i |-> i]

\* mutant: the TestSetName is not put into the name
TestNameOfPlain(tset, curcase) == heap[curcase].TestName

\* testName as computed before the yield call
TestNameOf(tset, curcase) ==
    IF tset.TestSetName # ""
    THEN "Test Alternative #" \o tset.TestSetName \o "_" \o heap[curcase].TestName
    ELSE heap[curcase].TestName

\* the pair handed to yield at position i of tset: the name and what the build
\* closure captures (testCases, i, curcase)
PairAt(tset, i) ==
    [name |-> TestNameOf(tset, tset.TestCases[i]),
     testCases |-> tset.TestCases,
     i |-> i,
     curcase |-> tset.TestCases[i]]

\* mutant: when both loops have ended a last, empty pair is handed to yield
RunToYieldTrailingPair(testSets, s, i, nStages) ==
    LET nxt == NextYield(testSets, s, i) IN
    /\ iter' = [pc |-> "yielded", testSets |-> testSets, s |-> nxt.s, i |-> nxt.i,
                nStages |-> nStages, from |-> iter.from]
    /\ emitted' = IF nxt.pc = "yielded"
                  THEN Append(emitted, PairAt(testSets[nxt.s], nxt.i))
                  ELSE Append(emitted,
                          [name |-> "", testCases |-> <<>>, i |-> 0, curcase |-> 0])
    /\ setupCalls' = setupCalls
    /\ heapAtYield' = Append(heapAtYield, heap)

\* mutant: production is eager: the fixture of a pair is built when the pair
\* is emitted, which calls its setups
RunToYieldEager(testSets, s, i, nStages) ==
    LET nxt == NextYield(testSets, s, i) IN
    /\ iter' = [pc |-> nxt.pc, testSets |-> testSets, s |-> nxt.s, i |-> nxt.i,
                nStages |-> nStages, from |-> iter.from]
    /\ emitted' = IF nxt.pc = "yielded"
                  THEN Append(emitted, PairAt(testSets[nxt.s], nxt.i))
                  ELSE emitted
    /\ setupCalls' =
          IF nxt.pc = "yielded"
          THEN setupCalls +
               Cardinality({j \in 1..nxt.i :
                   heap[testSets[nxt.s].TestCases[j]].StateBuilder # NilFunc})
          ELSE setupCalls
    /\ heapAtYield' = IF nxt.pc = "yielded" THEN Append(heapAtYield, heap)
                      ELSE heapAtYield

\* the iterator body runs from (s, i) to its next yield call or to its end
RunToYield(testSets, s, i, nStages) ==
    LET nxt == NextYield(testSets, s, i) IN
    /\ iter' = [pc |-> nxt.pc, testSets |-> testSets, s |-> nxt.s, i |-> nxt.i,
                nStages |-> nStages, from |-> iter.from]
    /\ emitted' = IF nxt.pc = "yielded"
                  THEN Append(emitted, PairAt(testSets[nxt.s], nxt.i))
                  ELSE emitted
    /\ setupCalls' = setupCalls
    /\ heapAtYield' = IF nxt.pc = "yielded" THEN Append(heapAtYield, heap)
                      ELSE heapAtYield

\* the consumer starts ranging: GenerateTestSets, then the loops up to the
\* first yield
IterStart ==
    /\ iter.pc = "created"
    /\ RunToYield(GenerateTestSets(TestCaseSets), 1, 1, Len(TestCaseSets))
    /\ UNCHANGED <<sliceVars, ctrVars, regVars, generated, yieldReturned, builds>>

\* mutant: "return" is a "break": a stop ends the inner loop only and the
\* iterator goes on with the next test set
YieldReturnsBreaksInnerLoop(cont) ==
    /\ iter.pc = "yielded"
    /\ yieldReturned' = Append(yieldReturned, cont)
    /\ IF cont
       THEN RunToYield(iter.testSets, iter.s, iter.i + 1, iter.nStages)
       ELSE RunToYield(iter.testSets, iter.s + 1, 1, iter.nStages)
    /\ UNCHANGED <<sliceVars, ctrVars, regVars, generated, builds>>

\* mutant: the test sets are generated again from the registry each time the
\* iterator goes on
YieldReturnsRegenerates(cont) ==
    /\ iter.pc = "yielded"
    /\ yieldReturned' = Append(yieldReturned, cont)
    /\ IF cont
       THEN RunToYield(GenerateTestSets(TestCaseSets), iter.s, iter.i + 1,
                       Len(TestCaseSets))
       ELSE /\ iter' = [iter EXCEPT !.pc = "stopped"]
            /\ UNCHANGED <<emitted, heapAtYield, setupCalls>>
    /\ UNCHANGED <<sliceVars, ctrVars, regVars, generated, builds>>

\* the consumer's loop body ends: yield returns cont
YieldReturns(cont) ==
    /\ iter.pc = "yielded"
    /\ yieldReturned' = Append(yieldReturned, cont)
    /\ IF cont
       THEN RunToYield(iter.testSets, iter.s, iter.i + 1, iter.nStages)
       ELSE /\ iter' = [iter EXCEPT !.pc = "stopped"]
            /\ UNCHANGED <<emitted, heapAtYield, setupCalls>>
    /\ UNCHANGED <<sliceVars, ctrVars, regVars, generated, builds>>

\* the consumer ranges over the same iterator function once more, after a
\* range that ended or was stopped: the body will run again from its start
RangeAgain ==
    /\ iter.pc \in {"done", "stopped"}
    /\ iter.from = 0
    /\ iter' = [iter EXCEPT !.pc = "created", !.from = Len(emitted)]
    /\ UNCHANGED <<sliceVars, ctrVars, regVars, generated, emitted, heapAtYield,
                   yieldReturned, builds, setupCalls>>

(***************************************************************************)
(* The build closure.                                                      *)
(***************************************************************************)
\* mutant: sut and state are declared outside the closure, so an invocation
\* starts from what the previous one left
SharedLocals(e) ==
    IF builds = <<>> THEN ZeroLocals ELSE builds[Len(builds)].loc

\* the locals a build invocation starts with: var sut SUT; var state STATE
FreshLocals(e) == ZeroLocals

\* build(t) is called on the closure of pair e
BuildStart(e) ==
    /\ Len(builds) < MaxBuilds
    /\ builds' = Append(builds,
          [pair |-> e, pc |-> "state", j |-> 1, loc |-> FreshLocals(e),
           log |-> <<>>,
           result |-> [SUT |-> "", State |-> 0, Assert_ |-> ZeroAssert]])
    /\ UNCHANGED <<sliceVars, ctrVars, regVars, generated, iter, emitted, heapAtYield, yieldReturned,
                   setupCalls>>

\* mutant: sut and state live in one storage shared by every invocation, which
\* holds what the invocation started last has left there
CalledOnSharedStorage(b, kind, testcase, f) ==
    IF f = NilFunc THEN b
    ELSE [b EXCEPT !.loc = Apply(f, builds[Len(builds)].loc),
                   !.log = Append(b.log, [kind |-> kind, testcase |-> testcase, f |-> f])]

\* mutant: the call is wrapped in a deferred recover(), so a panicking f
\* leaves the invocation running
CalledRecovers(b, kind, testcase, f) ==
    IF f = NilFunc THEN b
    ELSE IF f.op = "panic"
    THEN [b EXCEPT !.log = Append(b.log, [kind |-> kind, testcase |-> testcase, f |-> f])]
    ELSE [b EXCEPT !.loc = Apply(f, b.loc),
                   !.log = Append(b.log, [kind |-> kind, testcase |-> testcase, f |-> f])]

\* an invocation after calling f (if non-nil) as the kind setup of testcase;
\* no recover() surrounds the call, so a panic of f unwinds the invocation
Called(b, kind, testcase, f) ==
    IF f = NilFunc THEN b
    ELSE IF f.op = "panic"
    THEN [b EXCEPT !.pc = "panicked",
                   !.log = Append(b.log, [kind |-> kind, testcase |-> testcase, f |-> f])]
    ELSE [b EXCEPT !.loc = Apply(f, b.loc),
                   !.log = Append(b.log, [kind |-> kind, testcase |-> testcase, f |-> f])]

\* mutant: every pass also runs the SpecificBuilder of its TestCase
StateStepRunsSpecific(b) ==
    LET p == emitted[b.pair]
        testcase == p.testCases[b.j]
        after == Called(Called(b, "state", testcase, heap[testcase].StateBuilder),
                        "specific", testcase, heap[testcase].SpecificBuilder)
    IN IF b.j < p.i
       THEN [after EXCEPT !.j = b.j + 1]
       ELSE [after EXCEPT !.pc = "specific"]

\* mutant: the pass of the target position skips its StateBuilder, so only the
\* StateBuilders of the positions before it run
StateStepExclusive(b) ==
    LET p == emitted[b.pair]
        testcase == p.testCases[b.j]
    IN IF b.j < p.i
       THEN [Called(b, "state", testcase, heap[testcase].StateBuilder)
                EXCEPT !.j = b.j + 1]
       ELSE [b EXCEPT !.pc = "specific"]

\* mutant: the closure captures copies of the TestCases, so a pass calls the
\* StateBuilder its TestCase had when the pair was handed to yield
StateStepAtEmission(b) ==
    LET p == emitted[b.pair]
        testcase == p.testCases[b.j]
        after == Called(b, "state", testcase,
                        heapAtYield[b.pair][testcase].StateBuilder)
    IN IF after.pc = "panicked" THEN after
       ELSE IF b.j < p.i
       THEN [after EXCEPT !.j = b.j + 1]
       ELSE [after EXCEPT !.pc = "specific"]

\* loop pass j up to "if j < i { continue }": the StateBuilder of testCases[j]
StateStep(b) ==
    LET p == emitted[b.pair]
        testcase == p.testCases[b.j]
        after == Called(b, "state", testcase, heap[testcase].StateBuilder)
    IN IF after.pc = "panicked" THEN after
       ELSE IF b.j < p.i
       THEN [after EXCEPT !.j = b.j + 1]
       ELSE [after EXCEPT !.pc = "specific"]

\* mutant: curcase is shared by all closures of a test set and holds the
\* last TestCase the range loop saw
SpecificStepLastCase(b) ==
    LET p == emitted[b.pair]
        testcase == p.testCases[b.j]
        after == Called(b, "specific", testcase, heap[testcase].SpecificBuilder)
    IN [after EXCEPT !.pc = "done",
                     !.result = [SUT |-> after.loc.sut, State |-> after.loc.state,
                                 Assert_ |-> heap[p.testCases[Len(p.testCases)]].Assertion]]

\* loop pass i after the continue: the SpecificBuilder of testCases[i], the
\* break and the return
SpecificStep(b) ==
    LET p == emitted[b.pair]
        testcase == p.testCases[b.j]
        after == Called(b, "specific", testcase, heap[testcase].SpecificBuilder)
    IN IF after.pc = "panicked" THEN after
       ELSE [after EXCEPT !.pc = "done",
                     !.result = [SUT |-> after.loc.sut, State |-> after.loc.state,
                                 Assert_ |-> heap[p.curcase].Assertion]]

\* one loop pass of invocation n; the setup call it makes, if any, is counted.
\* An invocation that returned or panicked takes no further pass.
BuildStep(n) ==
    /\ builds[n].pc \in {"state", "specific"}
    /\ builds' = [builds EXCEPT ![n] =
          IF @.pc = "state" THEN StateStep(@) ELSE SpecificStep(@)]
    /\ setupCalls' = setupCalls + (Len(builds'[n].log) - Len(builds[n].log))
    /\ UNCHANGED <<sliceVars, ctrVars, regVars, generated, iter, emitted, heapAtYield, yieldReturned>>

(***************************************************************************)
(* Registries a sequence of Register / RegisterAlternative calls leaves.   *)
(***************************************************************************)
RECURSIVE Shapes(_)
\* the alternative counts of every registry holding exactly n TestCases
Shapes(n) ==
    IF n = 0 THEN {<<>>}
    ELSE {<<n>>} \cup
         UNION {{Append(sh, k) : sh \in Shapes(n - k) \ {<<>>}} : k \in 1..(n - 1)}

RECURSIVE SumUpTo(_, _)
SumUpTo(shape, n) == IF n = 0 THEN 0 ELSE shape[n] + SumUpTo(shape, n - 1)

\* the TestCaseSets that Register / RegisterAlternative calls of that shape
\* leave: TestCases are allocated in registration order
SetsOfShape(shape) ==
    [k \in 1..Len(shape) |->
        [a \in 1..shape[k] |-> SumUpTo(shape, k - 1) + a]]

Letter(k) ==
    CASE k = 1 -> "a" [] k = 2 -> "b" [] k = 3 -> "c" [] k = 4 -> "d"
      [] k = 5 -> "e" [] OTHER -> "f"

Payload(k) == "assert" \o Itoa(k)

(***************************************************************************)
(* Spec: a TestsBuilder from its zero value on; registration, mutators and *)
(* one range over Tests(), in any order.                                   *)
(***************************************************************************)
Init ==
    /\ alternativeCountList = <<>>
    /\ currIndexes = <<>>
    /\ returned = <<>>
    /\ visited = <<>>
    /\ labels = <<>>
    /\ tests = <<>>
    /\ sliceCalls = <<>>
    /\ InitBuilder

Next ==
    \/ \E name \in Names : Register(name)
    \/ \E name \in Names : RegisterAlternative(name)
    \/ \E ts \in 1..Len(heap), f \in UserFuncs : WithStateBuilder(ts, f)
    \/ \E ts \in 1..Len(heap), f \in UserFuncs : WithSpecificBuilder(ts, f)
    \/ \E ts \in 1..Len(heap), f \in AssertVals : WithAssertion(ts, f)
    \/ TestsCall
    \/ IterStart
    \/ \E cont \in BOOLEAN : YieldReturns(cont)

Spec == Init /\ [][Next]_vars

(***************************************************************************)
(* SpecReg: a TestsBuilder from its zero value on; registration and         *)
(* mutator calls only, in any order.                                        *)
(***************************************************************************)
NextReg ==
    \/ \E name \in Names : Register(name)
    \/ \E name \in Names : RegisterAlternative(name)
    \/ \E ts \in 1..Len(heap), f \in UserFuncs : WithStateBuilder(ts, f)
    \/ \E ts \in 1..Len(heap), f \in UserFuncs : WithSpecificBuilder(ts, f)
    \/ \E ts \in 1..Len(heap), f \in AssertVals : WithAssertion(ts, f)

SpecReg == Init /\ [][NextReg]_vars

(***************************************************************************)
(* SpecGen: a TestsBuilder after the Register / RegisterAlternative calls   *)
(* of any shape of up to MaxGenCases TestCases (the k-th named k), then    *)
(* further registration and direct GenerateTestSets() calls, in any order. *)
(***************************************************************************)
InitGen ==
    /\ alternativeCountList = <<>>
    /\ currIndexes = <<>>
    /\ returned = <<>>
    /\ visited = <<>>
    /\ labels = <<>>
    /\ tests = <<>>
    /\ sliceCalls = <<>>
    /\ \E n \in 0..MaxGenCases :
        \E shape \in Shapes(n) :
          /\ TestCaseSets = SetsOfShape(shape)
          /\ heap = [k \in 1..n |-> NewTestCase(Itoa(k))]
    /\ lastCall = [op |-> "none", name |-> "", builder |-> NilFunc,
                   assertion |-> ZeroAssert, ret |-> 0, panic |-> FALSE]
    /\ withCalls = 0
    /\ generated = [called |-> FALSE, sets |-> <<>>, testSets |-> <<>>]
    /\ iter = [pc |-> "none", testSets |-> <<>>, s |-> 0, i |-> 0, nStages |-> 0, from |-> 0]
    /\ emitted = <<>>
    /\ heapAtYield = <<>>
    /\ yieldReturned = <<>>
    /\ builds = <<>>
    /\ setupCalls = 0

NextGen ==
    \/ \E name \in Names : Register(name)
    \/ \E name \in Names : RegisterAlternative(name)
    \/ GenerateTestSetsCall

SpecGen == InitGen /\ [][NextGen]_vars

(***************************************************************************)
(* SpecIter: a TestsBuilder after the Register / RegisterAlternative calls  *)
(* of any shape of up to MaxGenCases TestCases, with any names, and one     *)
(* range over Tests(), run to its end or stopped at any pair.               *)
(***************************************************************************)
InitIter ==
    /\ alternativeCountList = <<>>
    /\ currIndexes = <<>>
    /\ returned = <<>>
    /\ visited = <<>>
    /\ labels = <<>>
    /\ tests = <<>>
    /\ sliceCalls = <<>>
    /\ \E n \in 0..MaxGenCases :
        \E shape \in Shapes(n) :
        \E names \in [1..n -> Names] :
          /\ TestCaseSets = SetsOfShape(shape)
          /\ heap = [k \in 1..n |-> NewTestCase(names[k])]
    /\ lastCall = [op |-> "none", name |-> "", builder |-> NilFunc,
                   assertion |-> ZeroAssert, ret |-> 0, panic |-> FALSE]
    /\ withCalls = 0
    /\ generated = [called |-> FALSE, sets |-> <<>>, testSets |-> <<>>]
    /\ iter = [pc |-> "none", testSets |-> <<>>, s |-> 0, i |-> 0, nStages |-> 0, from |-> 0]
    /\ emitted = <<>>
    /\ heapAtYield = <<>>
    /\ yieldReturned = <<>>
    /\ builds = <<>>
    /\ setupCalls = 0

NextIter ==
    \/ TestsCall
    \/ IterStart
    \/ \E cont \in BOOLEAN : YieldReturns(cont)

SpecIter == InitIter /\ [][NextIter]_vars

(***************************************************************************)
(* SpecBuild: a TestsBuilder as a test function has configured it (every   *)
(* shape of up to MaxCases TestCases; the TestCase registered k-th is      *)
(* named k, its StateBuilder absent or "append the k-th letter", its       *)
(* SpecificBuilder absent or "set to -", its Assertion the k-th payload),  *)
(* one range over Tests() and build invocations in any order.              *)
(***************************************************************************)
InitBuild ==
    /\ alternativeCountList = <<>>
    /\ currIndexes = <<>>
    /\ returned = <<>>
    /\ visited = <<>>
    /\ labels = <<>>
    /\ tests = <<>>
    /\ sliceCalls = <<>>
    /\ \E n \in 0..MaxCases :
        \E shape \in Shapes(n) :
        \E sb \in [1..n -> BOOLEAN], sp \in [1..n -> BOOLEAN] :
          /\ TestCaseSets = SetsOfShape(shape)
          /\ heap = [k \in 1..n |->
                [TestName |-> Itoa(k),
                 StateBuilder |-> IF sb[k] THEN AppendFunc(Letter(k)) ELSE NilFunc,
                 SpecificBuilder |-> IF sp[k] THEN SetFunc("-") ELSE NilFunc,
                 Assertion |-> Payload(k)]]
    /\ lastCall = [op |-> "none", name |-> "", builder |-> NilFunc,
                   assertion |-> ZeroAssert, ret |-> 0, panic |-> FALSE]
    /\ withCalls = 0
    /\ generated = [called |-> FALSE, sets |-> <<>>, testSets |-> <<>>]
    /\ iter = [pc |-> "none", testSets |-> <<>>, s |-> 0, i |-> 0, nStages |-> 0, from |-> 0]
    /\ emitted = <<>>
    /\ heapAtYield = <<>>
    /\ yieldReturned = <<>>
    /\ builds = <<>>
    /\ setupCalls = 0

NextBuild ==
    \/ TestsCall
    \/ IterStart
    \/ \E cont \in BOOLEAN : YieldReturns(cont)
    \/ \E e \in 1..Len(emitted) : BuildStart(e)
    \/ \E n \in 1..Len(builds) : BuildStep(n)

SpecBuild == InitBuild /\ [][NextBuild]_vars

(***************************************************************************)
(* SpecFail: a TestsBuilder as Register calls alone configure it (up to    *)
(* MaxCases stages of one TestCase each, the k-th named k), where each     *)
(* StateBuilder is absent, "append the k-th letter" or panics and each     *)
(* SpecificBuilder is absent, "set to -" or panics; one range over Tests() *)
(* and build invocations in any order.  The harness recovers the panic of  *)
(* a build and goes on with the others, as t.Run and the deferred recover  *)
(* of Test_TestDataFromSlice_PanicInBuilder_DoesNotStopOthers do.          *)
(***************************************************************************)
SetupKinds == {"nil", "ok", "panic"}

InitFail ==
    /\ alternativeCountList = <<>>
    /\ currIndexes = <<>>
    /\ returned = <<>>
    /\ visited = <<>>
    /\ labels = <<>>
    /\ tests = <<>>
    /\ sliceCalls = <<>>
    /\ \E n \in 0..MaxCases :
        \E sb \in [1..n -> SetupKinds], sp \in [1..n -> SetupKinds] :
          /\ TestCaseSets = [k \in 1..n |-> <<k>>]
          /\ heap = [k \in 1..n |->
                [TestName |-> Itoa(k),
                 StateBuilder |-> CASE sb[k] = "ok" -> AppendFunc(Letter(k))
                                    [] sb[k] = "panic" -> PanicFunc("boom-in-statebuilder")
                                    [] OTHER -> NilFunc,
                 SpecificBuilder |-> CASE sp[k] = "ok" -> SetFunc("-")
                                       [] sp[k] = "panic" -> PanicFunc("boom-in-specificbuilder")
                                       [] OTHER -> NilFunc,
                 Assertion |-> Payload(k)]]
    /\ lastCall = [op |-> "none", name |-> "", builder |-> NilFunc,
                   assertion |-> ZeroAssert, ret |-> 0, panic |-> FALSE]
    /\ withCalls = 0
    /\ generated = [called |-> FALSE, sets |-> <<>>, testSets |-> <<>>]
    /\ iter = [pc |-> "none", testSets |-> <<>>, s |-> 0, i |-> 0, nStages |-> 0, from |-> 0]
    /\ emitted = <<>>
    /\ heapAtYield = <<>>
    /\ yieldReturned = <<>>
    /\ builds = <<>>
    /\ setupCalls = 0

NextFail ==
    \/ TestsCall
    \/ IterStart
    \/ \E cont \in BOOLEAN : YieldReturns(cont)
    \/ \E e \in 1..Len(emitted) : BuildStart(e)
    \/ \E n \in 1..Len(builds) : BuildStep(n)

SpecFail == InitFail /\ [][NextFail]_vars

(***************************************************************************)
(* SpecLate: a TestsBuilder after the Register / RegisterAlternative calls  *)
(* of any shape of up to MaxLateCases TestCases (the k-th named k, nothing  *)
(* configured yet), then With* mutator calls, one range over Tests() and    *)
(* build invocations, in any order.                                         *)
(***************************************************************************)
InitLate ==
    /\ alternativeCountList = <<>>
    /\ currIndexes = <<>>
    /\ returned = <<>>
    /\ visited = <<>>
    /\ labels = <<>>
    /\ tests = <<>>
    /\ sliceCalls = <<>>
    /\ \E n \in 0..MaxLateCases :
        \E shape \in Shapes(n) :
          /\ TestCaseSets = SetsOfShape(shape)
          /\ heap = [k \in 1..n |-> NewTestCase(Itoa(k))]
    /\ lastCall = [op |-> "none", name |-> "", builder |-> NilFunc,
                   assertion |-> ZeroAssert, ret |-> 0, panic |-> FALSE]
    /\ withCalls = 0
    /\ generated = [called |-> FALSE, sets |-> <<>>, testSets |-> <<>>]
    /\ iter = [pc |-> "none", testSets |-> <<>>, s |-> 0, i |-> 0, nStages |-> 0, from |-> 0]
    /\ emitted = <<>>
    /\ heapAtYield = <<>>
    /\ yieldReturned = <<>>
    /\ builds = <<>>
    /\ setupCalls = 0

NextLate ==
    \/ \E ts \in 1..Len(heap), f \in UserFuncs : WithStateBuilder(ts, f)
    \/ \E ts \in 1..Len(heap), f \in UserFuncs : WithSpecificBuilder(ts, f)
    \/ \E ts \in 1..Len(heap), f \in AssertVals : WithAssertion(ts, f)
    \/ TestsCall
    \/ IterStart
    \/ \E cont \in BOOLEAN : YieldReturns(cont)
    \/ \E e \in 1..Len(emitted) : BuildStart(e)
    \/ \E n \in 1..Len(builds) : BuildStep(n)

SpecLate == InitLate /\ [][NextLate]_vars

(***************************************************************************)
(* SpecAgain: a TestsBuilder after the Register / RegisterAlternative      *)
(* calls of any shape of up to MaxGenCases TestCases, with any names, and  *)
(* no registration from then on: direct GenerateTestSets() calls, and the  *)
(* sequence returned by Tests() ranged over and then ranged over again.    *)
(***************************************************************************)
NextAgain ==
    \/ GenerateTestSetsCall
    \/ TestsCall
    \/ IterStart
    \/ \E cont \in BOOLEAN : YieldReturns(cont)
    \/ RangeAgain

SpecAgain == InitIter /\ [][NextAgain]_vars

(***************************************************************************)
(* SpecCounter: a counter made by NewCurrIndexes from a radix list with    *)
(* all entries >= 1, driven by the loop of TestNewCurrIndexes              *)
(* (String, then AddOne) and by further AddOne calls after completion.     *)
(***************************************************************************)
RadixLists ==
    {radix \in UNION {[1..n -> 1..MaxRadix] : n \in 0..MaxDims} :
        Product(radix) <= MaxTuples}

InitCounter ==
    /\ alternativeCountList \in RadixLists
    /\ currIndexes = NewCurrIndexes(alternativeCountList).currIndexes
    /\ returned = <<>>
    /\ visited = <<>>
    /\ labels = <<>>
    /\ tests = <<>>
    /\ sliceCalls = <<>>
    /\ InitBuilder

\* number of AddOne calls so far that returned true
NumDone == Cardinality({k \in 1..Len(returned) : returned[k]})

CallAddOne ==
    /\ NumDone <= MaxExtraCalls
    /\ LET r == AddOne(currIndexes, alternativeCountList) IN
        /\ visited' = Append(visited, currIndexes)
        /\ labels' = Append(labels, String(currIndexes))
        /\ currIndexes' = r.currIndexes
        /\ returned' = Append(returned, r.isDone)
    /\ UNCHANGED <<alternativeCountList, regVars, runVars, sliceVars>>

NextCounter == CallAddOne

SpecCounter == InitCounter /\ [][NextCounter]_vars

(***************************************************************************)
(* testslicebuilder: TestDataFromSlice over a []TableTestItem.  An item is *)
(* [Name, StateBuilder, SpecificBuilder, Assertion]; testIndex keeps the   *)
(* code's 0-based value, so it names tests[testIndex + 1] here.            *)
(***************************************************************************)
\* testbuilder.TestData[SUT, STATE, ASSERT]{}
ZeroTestData == [SUT |-> "", State |-> 0, Assert_ |-> ZeroAssert]

ErrNoTestsDefined == "no tests defined"

ErrIndexOutOfRange == "index out of range"

\* the call frame of TestDataFromSlice after "if f != nil { f(t, &sut, &state) }"
\* for the kind builder f of item k; a panic of f unwinds the frame
CallBuilder(fr, kind, k, f) ==
    IF f = NilFunc THEN fr
    ELSE IF f.op = "panic"
    THEN [fr EXCEPT !.panicked = TRUE,
                    !.log = Append(fr.log, [kind |-> kind, testcase |-> k, f |-> f])]
    ELSE [fr EXCEPT !.loc = Apply(f, fr.loc),
                    !.log = Append(fr.log, [kind |-> kind, testcase |-> k, f |-> f])]

RECURSIVE RunStateBuildersDown(_, _, _, _)
\* mutant: the range runs from the target item back to the first
RunStateBuildersDown(items, k, last, fr) ==
    IF fr.panicked \/ last < k THEN fr
    ELSE RunStateBuildersDown(items, k, last - 1,
            CallBuilder(fr, "state", last, items[last].StateBuilder))

RECURSIVE RunStateBuilders(_, _, _, _)
\* for _, tc := range tests[:testIndex+1]: passes k..last of the loop
RunStateBuilders(items, k, last, fr) ==
    IF fr.panicked \/ k > last THEN fr
    ELSE RunStateBuilders(items, k + 1, last,
            CallBuilder(fr, "state", k, items[k].StateBuilder))

\* mutant: the index is checked before the emptiness of the slice
TestDataFromSliceIndexFirst(testIndex, items) ==
    IF testIndex < 0 \/ testIndex >= Len(items)
    THEN [data |-> ZeroTestData, err |-> ErrIndexOutOfRange, log |-> <<>>,
          panicked |-> FALSE]
    ELSE LET built == RunStateBuilders(items, 1, testIndex + 1,
                         [loc |-> ZeroLocals, log |-> <<>>, panicked |-> FALSE])
             target == items[testIndex + 1]
             after == IF built.panicked THEN built
                      ELSE CallBuilder(built, "specific", testIndex + 1,
                                       target.SpecificBuilder)
         IN [data |-> IF after.panicked THEN ZeroTestData
                      ELSE [SUT |-> after.loc.sut, State |-> after.loc.state,
                            Assert_ |-> target.Assertion],
             err |-> "nil", log |-> after.log, panicked |-> after.panicked]

\* TestDataFromSlice(t, testIndex, tests): what it returns (data, err), the
\* builder calls it made (log) and whether a builder's panic unwound it, in
\* which case nothing is returned and data is not meaningful
TestDataFromSlice(testIndex, items) ==
    IF Len(items) = 0
    THEN [data |-> ZeroTestData, err |-> ErrNoTestsDefined, log |-> <<>>,
          panicked |-> FALSE]
    ELSE IF testIndex < 0 \/ testIndex >= Len(items)
    THEN [data |-> ZeroTestData, err |-> ErrIndexOutOfRange, log |-> <<>>,
          panicked |-> FALSE]
    ELSE LET built == RunStateBuilders(items, 1, testIndex + 1,
                         [loc |-> ZeroLocals, log |-> <<>>, panicked |-> FALSE])
             target == items[testIndex + 1]
             after == IF built.panicked THEN built
                      ELSE CallBuilder(built, "specific", testIndex + 1,
                                       target.SpecificBuilder)
         IN [data |-> IF after.panicked THEN ZeroTestData
                      ELSE [SUT |-> after.loc.sut, State |-> after.loc.state,
                            Assert_ |-> target.Assertion],
             err |-> "nil", log |-> after.log, panicked |-> after.panicked]

(***************************************************************************)
(* The earlier, flat TestsBuilder (one TestCase per Register call, no      *)
(* alternatives), as functions of its TestCases and of what the consumer   *)
(* answers to each yield.                                                  *)
(***************************************************************************)
\* ts.TestCases of the flat builder after the Register calls that left this
\* registry: the *TestCase of every call, in call order
FlatTestCases == [k \in 1..Len(TestCaseSets) |-> TestCaseSets[k][1]]

RECURSIVE FlatRangeIgnoresStop(_, _, _, _)
\* mutant: the value yield returns is not tested
FlatRangeIgnoresStop(testCases, i, answers, out) ==
    IF i > Len(testCases) THEN [pc |-> "done", emitted |-> out]
    ELSE LET handed == Append(out, [name |-> heap[testCases[i]].TestName,
                                    i |-> i, curcase |-> testCases[i]])
         IN IF i > Len(answers) THEN [pc |-> "yielded", emitted |-> handed]
            ELSE FlatRangeIgnoresStop(testCases, i + 1, answers, handed)

RECURSIVE FlatRange(_, _, _, _)
\* for i, curcase := range ts.TestCases { ...; if !yield(curcase.TestName,
\* build) { return } } from pass i on, yield returning answers[i]: the pairs
\* handed to yield and where the body stands
FlatRange(testCases, i, answers, out) ==
    IF i > Len(testCases) THEN [pc |-> "done", emitted |-> out]
    ELSE LET handed == Append(out, [name |-> heap[testCases[i]].TestName,
                                    i |-> i, curcase |-> testCases[i]])
         IN IF i > Len(answers) THEN [pc |-> "yielded", emitted |-> handed]
            ELSE IF ~answers[i] THEN [pc |-> "stopped", emitted |-> handed]
            ELSE FlatRange(testCases, i + 1, answers, handed)

RECURSIVE FlatBuildLoop(_, _, _, _)
\* for j, testcase := range ts.TestCases of the flat build closure for
\* position i, from pass j on
FlatBuildLoop(testCases, i, j, fr) ==
    IF j > Len(testCases) THEN fr
    ELSE LET built == CallBuilder(fr, "state", testCases[j],
                                  heap[testCases[j]].StateBuilder)
         IN IF built.panicked THEN built
            ELSE IF j < i THEN FlatBuildLoop(testCases, i, j + 1, built)
            ELSE CallBuilder(built, "specific", testCases[j],
                             heap[testCases[j]].SpecificBuilder)

\* build(t) of the flat builder for position i: the setup calls it makes,
\* whether a panic unwound it, and otherwise the TestData it returns
FlatBuild(testCases, i) ==
    LET after == FlatBuildLoop(testCases, i, 1,
                    [loc |-> ZeroLocals, log |-> <<>>, panicked |-> FALSE])
    IN [data |-> IF after.panicked THEN ZeroTestData
                 ELSE [SUT |-> after.loc.sut, State |-> after.loc.state,
                       Assert_ |-> heap[testCases[i]].Assertion],
        log |-> after.log, panicked |-> after.panicked]

(***************************************************************************)
(* SpecSlice: a table test over any slice of up to MaxItems items (item k  *)
(* named k, its StateBuilder absent or "append the k-th letter", its       *)
(* SpecificBuilder absent or "set to -", its Assertion the k-th payload)   *)
(* that calls TestDataFromSlice with any indices, valid or not.            *)
(***************************************************************************)
InitSlice ==
    /\ alternativeCountList = <<>>
    /\ currIndexes = <<>>
    /\ returned = <<>>
    /\ visited = <<>>
    /\ labels = <<>>
    /\ InitBuilder
    /\ \E n \in 0..MaxItems :
        \E sb \in [1..n -> BOOLEAN], sp \in [1..n -> BOOLEAN] :
          tests = [k \in 1..n |->
                [Name |-> Itoa(k),
                 StateBuilder |-> IF sb[k] THEN AppendFunc(Letter(k)) ELSE NilFunc,
                 SpecificBuilder |-> IF sp[k] THEN SetFunc("-") ELSE NilFunc,
                 Assertion |-> Payload(k)]]
    /\ sliceCalls = <<>>

\* data, err := TestDataFromSlice(t, testIndex, tests)
CallTestDataFromSlice(testIndex) ==
    /\ Len(sliceCalls) < MaxSliceCalls
    /\ LET r == TestDataFromSlice(testIndex, tests) IN
        /\ sliceCalls' = Append(sliceCalls, [testIndex |-> testIndex, ret |-> r])
        /\ setupCalls' = setupCalls + Len(r.log)
    /\ UNCHANGED <<tests, ctrVars, regVars, generated, iter, emitted, heapAtYield, yieldReturned,
                   builds>>

NextSlice == \E testIndex \in -1..Len(tests) : CallTestDataFromSlice(testIndex)

SpecSlice == InitSlice /\ [][NextSlice]_vars

(***************************************************************************)
(* Properties of the IndexCounter (checked under SpecCounter).             *)
(***************************************************************************)
\* the calls made so far that belong to the enumeration loop: the loop of
\* TestNewCurrIndexes stops at the first call that returns true
EnumCalls == MinOf(Len(visited), Product(alternativeCountList))

\* C1: for a radix list with all entries >= 1 the loop "read the tuple, call
\* AddOne, stop when it returns true" visits exactly Product(radix) tuples,
\* pairwise distinct and covering every tuple with 0 <= i_k < radix_k; AddOne
\* returns false on every call before the last tuple and true on the call made
\* at the last tuple, so the loop ends after Product(radix) calls.
C1_EnumeratesEveryTupleOnce ==
    LET n == Product(alternativeCountList) IN
    /\ \A k \in 1..Len(returned) : k < n => ~returned[k]
    /\ Len(returned) >= n => returned[n]
    /\ Cardinality({visited[k] : k \in 1..EnumCalls}) = EnumCalls
    /\ \A k \in 1..EnumCalls :
          \A p \in 1..Len(alternativeCountList) :
             visited[k][p] \in 0..(alternativeCountList[p] - 1)
    /\ Len(returned) >= n =>
          {visited[k] : k \in 1..n} = AllTuples(alternativeCountList)

C1_Witness ==
    /\ alternativeCountList = <<2, 3, 1, 2>>
    /\ Len(returned) = 12
    /\ returned[12]

\* C2 as stated: the enumeration starts at the all-zero tuple and, whenever
\* AddOne returns true, the tuple has wrapped back to all-zero.
C2_WrapsBackToZero ==
    /\ returned = <<>> => currIndexes = Zeros(Len(alternativeCountList))
    /\ (returned # <<>> /\ Last(returned)) =>
          currIndexes = Zeros(Len(alternativeCountList))

\* C2 (amended): NewCurrIndexes yields the all-zero tuple, and whenever AddOne
\* returns true the call has left the tuple unchanged at the last tuple, every
\* index equal to radix_k - 1; the tuple does not wrap back to all-zero.
C2_StartsAtZeroEndsAtLastTuple ==
    /\ returned = <<>> => currIndexes = Zeros(Len(alternativeCountList))
    /\ (returned # <<>> /\ Last(returned)) =>
          /\ currIndexes = Last(visited)
          /\ currIndexes =
                [i \in 1..Len(alternativeCountList) |-> alternativeCountList[i] - 1]

C2_Witness ==
    /\ alternativeCountList = <<2, 1, 3>>
    /\ returned # <<>>
    /\ Last(returned)
    /\ currIndexes = <<1, 0, 2>>

\* C3: the k-th tuple of the enumeration (k = 0, 1, ...) has at position p the
\* value floor(k / product of radix_q for q < p) mod radix_p (position 0 is the
\* least significant digit); radices [1,3,1,2] give the labels
\* 0000, 0100, 0200, 0001, 0101, 0201 in that order.
C3_LowPositionCyclesFastest ==
    /\ \A k \in 1..EnumCalls :
          \A p \in 1..Len(alternativeCountList) :
             visited[k][p] =
                ((k - 1) \div ProductUpTo(alternativeCountList, p - 1))
                   % alternativeCountList[p]
    /\ alternativeCountList = <<1, 3, 1, 2>> =>
          SubSeq(labels, 1, EnumCalls) =
             SubSeq(<<"0000", "0100", "0200", "0001", "0101", "0201">>,
                    1, EnumCalls)

C3_Witness ==
    /\ alternativeCountList = <<1, 3, 1, 2>>
    /\ Len(labels) = 6
    /\ labels[6] = "0201"
    /\ returned[6]

(***************************************************************************)
(* Properties of GenerateTestSets (checked under SpecGen).                 *)
(***************************************************************************)
RECURSIVE SelectionsUpTo(_, _)
SelectionsUpTo(sets, n) ==
    IF n = 0 THEN {<<>>}
    ELSE {Append(sel, sets[n][a]) :
             sel \in SelectionsUpTo(sets, n - 1), a \in 1..Len(sets[n])}

\* every selection of one alternative per TestCaseSet, in set order
Selections(sets) == SelectionsUpTo(sets, Len(sets))

\* C4: for a registry with at least one stage, GenerateTestSets returns
\* exactly as many TestSets as the product of the stages' alternative counts.
C4_PathCountIsProduct ==
    (generated.called /\ Len(generated.sets) >= 1) =>
        Len(generated.testSets) =
            Product([k \in 1..Len(generated.sets) |-> Len(generated.sets[k])])

C4_Witness ==
    /\ generated.called
    /\ Len(generated.sets) = 3
    /\ Len(generated.sets[1]) = 2
    /\ Len(generated.sets[2]) = 1
    /\ Len(generated.sets[3]) = 2
    /\ Len(generated.testSets) = 4

\* C5 as stated: with zero registered stages GenerateTestSets returns an empty
\* list of TestSets.
C5_NoStagesNoTestSets ==
    (generated.called /\ generated.sets = <<>>) => generated.testSets = <<>>

\* C5 (amended): with zero registered stages GenerateTestSets returns exactly
\* one TestSet, which has no TestCases and an empty TestSetName (the body of
\* "for !isDone" runs once before AddOne is asked); no error or panic occurs.
C5_NoStagesOneEmptyTestSet ==
    (generated.called /\ generated.sets = <<>>) =>
        generated.testSets = << [TestCases |-> <<>>, TestSetName |-> ""] >>

C5_Witness ==
    /\ generated.called
    /\ generated.sets = <<>>
    /\ Len(generated.testSets) = 1

\* C7: every TestSet returned by GenerateTestSets has one entry per stage, in
\* stage order, entry k being the alternative of stage k at index tuple[k]
\* (the tuple its TestSetName renders when there are alternatives); every
\* selection of one alternative per stage is the TestCases of exactly one
\* TestSet.
C7_PathsAreTheSelections ==
    generated.called =>
        LET sets == generated.sets
            ts == generated.testSets
            counts == [k \in 1..Len(sets) |-> Len(sets[k])]
        IN
        /\ \A n \in 1..Len(ts) :
              /\ Len(ts[n].TestCases) = Len(sets)
              /\ \E tuple \in AllTuples(counts) :
                    /\ \A k \in 1..Len(sets) :
                          ts[n].TestCases[k] = sets[k][tuple[k] + 1]
                    /\ ts[n].TestSetName # "" => ts[n].TestSetName = String(tuple)
        /\ {ts[n].TestCases : n \in 1..Len(ts)} = Selections(sets)
        /\ \A m, n \in 1..Len(ts) : m # n => ts[m].TestCases # ts[n].TestCases

C7_Witness ==
    /\ generated.called
    /\ generated.sets = <<<<1, 2>>, <<3>>, <<4, 5>>>>
    /\ Len(generated.testSets) = 4
    /\ generated.testSets[2].TestCases = <<2, 3, 4>>
    /\ generated.testSets[3].TestCases = <<1, 3, 5>>

(***************************************************************************)
(* Properties of Tests() (checked under Spec).                             *)
(***************************************************************************)
\* the consumer has started ranging over Tests()
IterStarted == iter.pc \in {"yielded", "stopped", "done"}

\* C6: with zero registered stages, ranging over Tests() hands no pair to
\* yield (the consumer body is never entered) and ends normally.
C6_NoStagesNoPairs ==
    (IterStarted /\ iter.nStages = 0) =>
        /\ emitted = <<>>
        /\ iter.pc = "done"

C6_Witness ==
    /\ iter.pc = "done"
    /\ iter.nStages = 0
    /\ Len(iter.testSets) = 1
    /\ Len(TestCaseSets) > 0

(***************************************************************************)
(* Properties of the build closures (checked under SpecBuild).             *)
(***************************************************************************)
\* the calls a loop pass makes: the setup kind of testcase, if it is set
CallOf(kind, testcase, f) ==
    IF f = NilFunc THEN <<>>
    ELSE << [kind |-> kind, testcase |-> testcase, f |-> f] >>

RECURSIVE CumulativeCalls(_, _)
\* the StateBuilders of P[1..i] that are set, in order
CumulativeCalls(P, i) ==
    IF i = 0 THEN <<>>
    ELSE CumulativeCalls(P, i - 1) \o CallOf("state", P[i], heap[P[i]].StateBuilder)

\* the setup calls of the builder for position i of path P
ExpectedCalls(P, i) ==
    CumulativeCalls(P, i) \o CallOf("specific", P[i], heap[P[i]].SpecificBuilder)

IsPrefix(a, b) == Len(a) <= Len(b) /\ a = SubSeq(b, 1, Len(a))

\* C8: invoking the builder of position i of path P calls, in this order and
\* nothing else, the StateBuilders of P[0..i] that are set, each once, then
\* the SpecificBuilder of P[i] if it is set; no StateBuilder of a position > i
\* and no SpecificBuilder of another position runs.
C8_SetupCallOrder ==
    \A n \in 1..Len(builds) :
        LET b == builds[n]
            p == emitted[b.pair]
            expected == ExpectedCalls(p.testCases, p.i)
        IN /\ IsPrefix(b.log, expected)
           /\ b.pc = "done" => b.log = expected

C8_Witness ==
    \E n \in 1..Len(builds) :
        LET b == builds[n]
            p == emitted[b.pair]
        IN /\ b.pc = "done"
           /\ Len(p.testCases) = 3
           /\ p.i = 2
           /\ \A k \in 1..3 :
                 /\ heap[p.testCases[k]].StateBuilder # NilFunc
                 /\ heap[p.testCases[k]].SpecificBuilder # NilFunc
           /\ Len(b.log) = 3
           /\ b.log[3].kind = "specific"
           /\ b.log[3].testcase = p.testCases[2]

RECURSIVE Replay(_, _)
\* sut and state after the calls of the sequence, made in order on zero values
Replay(calls, n) ==
    IF n = 0 THEN ZeroLocals ELSE Apply(calls[n].f, Replay(calls, n - 1))

\* what the builder for position i of path P returns when it runs alone
SoloResult(P, i) ==
    LET calls == ExpectedCalls(P, i)
        loc == Replay(calls, Len(calls))
    IN [SUT |-> loc.sut, State |-> loc.state, Assert_ |-> heap[P[i]].Assertion]

\* C9: the builder of position i of path P returns the SUT and state the
\* replayed setups produce, with the Assertion of P[i]; the only user-supplied
\* functions a build calls are StateBuilders and SpecificBuilders, and nothing
\* but a build calls any.
C9_ResultOfBuild ==
    /\ \A n \in 1..Len(builds) :
          LET b == builds[n]
              p == emitted[b.pair]
          IN /\ b.pc = "done" => b.result = SoloResult(p.testCases, p.i)
             /\ \A k \in 1..Len(b.log) : b.log[k].kind \in {"state", "specific"}

C9_Witness ==
    \E n \in 1..Len(builds) :
        LET b == builds[n]
            p == emitted[b.pair]
        IN /\ b.pc = "done"
           /\ Len(p.testCases) = 2
           /\ p.i = 1
           /\ Len(TestCaseSets[1]) = 2
           /\ p.testCases = <<2, 3>>
           /\ b.result = [SUT |-> "-", State |-> 1, Assert_ |-> "assert2"]

\* the number of entries of a log that are the call c
Occurrences(log, c) == Cardinality({k \in 1..Len(log) : log[k] = c})

RECURSIVE SumOccurrences(_, _, _)
\* over the returned invocations of pair e among builds[1..n]
SumOccurrences(e, c, n) ==
    IF n = 0 THEN 0
    ELSE SumOccurrences(e, c, n - 1) +
         (IF builds[n].pair = e /\ builds[n].pc = "done"
          THEN Occurrences(builds[n].log, c) ELSE 0)

Returned(e) == {n \in 1..Len(builds) : builds[n].pair = e /\ builds[n].pc = "done"}

\* C10: invocations of the same builder return equal results after equal
\* setup calls, whatever was invoked before or meanwhile; each starts from
\* zero-valued SUT and state; k returned invocations have run each
\* StateBuilder of positions 0..i exactly k times.
C10_RepeatedBuildsAgree ==
    /\ \A m, n \in 1..Len(builds) :
          (builds[m].pair = builds[n].pair
             /\ builds[m].pc = "done" /\ builds[n].pc = "done") =>
                /\ builds[m].result = builds[n].result
                /\ builds[m].log = builds[n].log
    /\ \A n \in 1..Len(builds) :
          builds[n].log = <<>> => builds[n].loc = ZeroLocals
    /\ \A e \in 1..Len(emitted) :
          \A j \in 1..emitted[e].i :
             LET c == CallOf("state", emitted[e].testCases[j],
                             heap[emitted[e].testCases[j]].StateBuilder)
             IN c # <<>> =>
                   SumOccurrences(e, c[1], Len(builds)) = Cardinality(Returned(e))

C10_Witness ==
    /\ Len(builds) = 2
    /\ builds[1].pair = builds[2].pair
    /\ builds[1].pc = "done"
    /\ builds[2].pc = "done"
    /\ emitted[builds[1].pair].i = 3
    /\ builds[2].result = [SUT |-> "abc", State |-> 3, Assert_ |-> "assert3"]

\* sut and state after the calls an invocation has logged so far
ReplayLog(log) == Replay(log, Len(log))

C12_StopEndsProduction ==
    /\ [](/\ Len(emitted) =
               Len(yieldReturned) + (IF iter.pc = "yielded" THEN 1 ELSE 0)
          /\ \A k \in 1..(Len(yieldReturned) - 1) : yieldReturned[k]
          /\ (yieldReturned # <<>> /\ ~Last(yieldReturned)) =>
                 iter.pc \in {"stopped", "done"})
    /\ [][(yieldReturned # <<>> /\ ~Last(yieldReturned)) =>
             UNCHANGED <<iter, emitted, yieldReturned>>]_vars

\* the consumer stops at the first pair of the first of two test sets of two
\* positions each
C12_Witness ==
    /\ iter.pc = "stopped"
    /\ yieldReturned = <<FALSE>>
    /\ Len(iter.testSets) = 2
    /\ iter.nStages = 2
    /\ Len(emitted) = 1

RECURSIVE LoggedCalls(_)
\* the setup calls the build invocations builds[1..n] have made so far
LoggedCalls(n) ==
    IF n = 0 THEN 0 ELSE LoggedCalls(n - 1) + Len(builds[n].log)

\* C13: production is lazy: every call of a user-supplied setup made so far
\* was made inside an invocation of an emitted builder; calling Tests(),
\* generating the test sets and ranging over the pairs (to the end or up to
\* a stop) call none, so as long as no builder has been invoked no setup has
\* run.
C13_SetupsRunOnlyInBuilds ==
    /\ setupCalls = LoggedCalls(Len(builds))
    /\ builds = <<>> => setupCalls = 0

\* all pairs of a registry whose three stages have StateBuilders were emitted
\* and no builder was invoked
C13_Witness ==
    /\ iter.pc = "done"
    /\ Len(emitted) = 3
    /\ Len(emitted[3].testCases) = 3
    /\ \A k \in 1..3 : heap[emitted[3].testCases[k]].StateBuilder # NilFunc
    /\ builds = <<>>
    /\ setupCalls = 0

\* the k-th tuple (k = 0, 1, ...) of the enumeration of a radix list: position
\* 1 cycles fastest
TupleOfPath(counts, k) ==
    [p \in 1..Len(counts) |-> (k \div ProductUpTo(counts, p - 1)) % counts[p]]

\* C14: the pairs of an iteration come test set by test set, the test sets in
\* the enumeration order of the counter (the alternatives of the earliest
\* stage with several alternatives cycle fastest), and within a test set in
\* increasing position 1..n; the pair at position i of path P is built from
\* P[i] and captures P; an iteration that is not stopped emits exactly
\* (number of paths) x (number of stages) pairs.
C14_PairsPathByPathInOrder ==
    LET n == Len(TestCaseSets)
        counts == [k \in 1..n |-> Len(TestCaseSets[k])]
        paths == Product(counts)
    IN
    /\ Len(emitted) <= paths * n
    /\ iter.pc = "done" => Len(emitted) = paths * n
    /\ \A e \in 1..Len(emitted) :
          LET tuple == TupleOfPath(counts, (e - 1) \div n)
              i == ((e - 1) % n) + 1
          IN /\ emitted[e].i = i
             /\ emitted[e].testCases = [q \in 1..n |-> TestCaseSets[q][tuple[q] + 1]]
             /\ emitted[e].curcase = TestCaseSets[i][tuple[i] + 1]

\* a full iteration over the stages {1, 2}, {3}, {4, 5}: the paths (1,3,4),
\* (2,3,4), (1,3,5), (2,3,5), three pairs each
C14_Witness ==
    /\ iter.pc = "done"
    /\ TestCaseSets = <<<<1, 2>>, <<3>>, <<4, 5>>>>
    /\ Len(emitted) = 12
    /\ emitted[4].testCases = <<2, 3, 4>>
    /\ emitted[4].curcase = 2
    /\ emitted[9].testCases = <<1, 3, 5>>
    /\ emitted[9].curcase = 5
    /\ \A k \in 1..12 : yieldReturned[k]

(***************************************************************************)
(* Properties of the emitted names (checked under SpecIter).               *)
(***************************************************************************)
\* C15: when there is at least one stage and every stage has exactly one
\* alternative, the iteration works on exactly one test set, whose
\* TestSetName is empty, and every emitted name is the registered TestName of
\* the alternative of its position, unmodified.
C15_SingleAlternativesPlainNames ==
    (/\ IterStarted
     /\ Len(TestCaseSets) >= 1
     /\ \A k \in 1..Len(TestCaseSets) : Len(TestCaseSets[k]) = 1) =>
        /\ Len(iter.testSets) = 1
        /\ iter.testSets[1].TestSetName = ""
        /\ \A e \in 1..Len(emitted) :
              emitted[e].name = heap[TestCaseSets[emitted[e].i][1]].TestName

C15_Witness ==
    /\ iter.pc = "done"
    /\ TestCaseSets = <<<<1>>, <<2>>, <<3>>>>
    /\ Len(emitted) = 3
    /\ emitted[1].name = "A"
    /\ emitted[2].name = "B"
    /\ emitted[3].name = "A"

\* C16: when some stage has more than one alternative, every emitted name,
\* of every path (the all-zero one included) and every position (those of
\* single-alternative stages included), is the TestName of its alternative
\* annotated with the label the counter renders for the tuple of its path:
\* "Test Alternative #" label "_" TestName.
C16_EveryNameCarriesItsLabel ==
    LET n == Len(TestCaseSets)
        counts == [k \in 1..n |-> Len(TestCaseSets[k])]
    IN (\E k \in 1..n : counts[k] > 1) =>
          \A e \in 1..Len(emitted) :
             LET tuple == TupleOfPath(counts, (e - 1) \div n) IN
             emitted[e].name =
                "Test Alternative #" \o String(tuple) \o "_"
                    \o heap[emitted[e].curcase].TestName

\* the pair of the single-alternative first stage in the all-zero path, and a
\* pair of the second path
C16_Witness ==
    /\ TestCaseSets = <<<<1>>, <<2, 3>>>>
    /\ Len(emitted) = 4
    /\ emitted[1].name = "Test Alternative #00_A"
    /\ emitted[3].name = "Test Alternative #01_A"
    /\ emitted[4].name = "Test Alternative #01_B"

RECURSIVE JoinedFrom(_, _)
JoinedFrom(tuple, i) ==
    IF i > Len(tuple) THEN ""
    ELSE IF i = Len(tuple) THEN Itoa(tuple[i])
    ELSE Itoa(tuple[i]) \o "_" \o JoinedFrom(tuple, i + 1)

\* the indices of a tuple separated by underscores, as in "0_1_2"
UnderscoreJoined(tuple) == JoinedFrom(tuple, 1)

\* C17 as stated: when some stage has more than one alternative, the
\* TestSetName of a test set is the indices of its tuple separated by
\* underscores ("0_1_2") and an emitted name is "Test Alternative #", the
\* underscore-separated indices, "_" and the TestName
\* ("Test Alternative #0_1_MyCase" for the tuple (0,1) and the case MyCase).
C17_UnderscoreSeparatedIndices ==
    LET n == Len(TestCaseSets)
        counts == [k \in 1..n |-> Len(TestCaseSets[k])]
    IN (IterStarted /\ \E k \in 1..n : counts[k] > 1) =>
          /\ \A t \in 1..Len(iter.testSets) :
                iter.testSets[t].TestSetName =
                   UnderscoreJoined(TupleOfPath(counts, t - 1))
          /\ \A e \in 1..Len(emitted) :
                emitted[e].name =
                   "Test Alternative #"
                      \o UnderscoreJoined(TupleOfPath(counts, (e - 1) \div n))
                      \o "_" \o heap[emitted[e].curcase].TestName

\* the test set (path) the e-th emitted pair belongs to
PathOf(e) == ((e - 1) \div Len(TestCaseSets)) + 1

\* C18 as stated: for every registry that Register / RegisterAlternative
\* calls leave, no two positions of one path are emitted under the same name,
\* and when there are several paths no two pairs of the whole iteration have
\* the same (label, name) composite.
C18_EmittedNamesUnique ==
    \A e1, e2 \in 1..Len(emitted) :
        e1 < e2 =>
           /\ PathOf(e1) = PathOf(e2) => emitted[e1].name # emitted[e2].name
           /\ Len(iter.testSets) > 1 =>
                 <<iter.testSets[PathOf(e1)].TestSetName,
                   heap[emitted[e1].curcase].TestName>>
                 # <<iter.testSets[PathOf(e2)].TestSetName,
                     heap[emitted[e2].curcase].TestName>>

\* C18 (amended): names are not made unique.  Two positions of one path are
\* emitted under the same name exactly when their alternatives were
\* registered under the same name (so the names of a path are pairwise
\* distinct when its alternatives' names are); when there are several paths
\* and no stage has more than ten alternatives (every index is one digit),
\* pairs of different paths carry different labels and different emitted
\* names, so two pairs share a (label, name) composite only if they are
\* positions of one path whose alternatives have the same name.
C18_NamesDistinctAsFarAsRegistered ==
    \A e1, e2 \in 1..Len(emitted) :
        e1 < e2 =>
           /\ PathOf(e1) = PathOf(e2) =>
                 (emitted[e1].name = emitted[e2].name
                    <=> heap[emitted[e1].curcase].TestName
                          = heap[emitted[e2].curcase].TestName)
           /\ (/\ PathOf(e1) # PathOf(e2)
               /\ \A k \in 1..Len(TestCaseSets) : Len(TestCaseSets[k]) <= 10) =>
                 /\ iter.testSets[PathOf(e1)].TestSetName
                       # iter.testSets[PathOf(e2)].TestSetName
                 /\ emitted[e1].name # emitted[e2].name

\* every alternative is named "A": the two positions of the first path share
\* their emitted name, the pairs of the second path differ from them
C18_Witness ==
    /\ TestCaseSets = <<<<1, 2>>, <<3>>>>
    /\ Len(emitted) = 4
    /\ emitted[1].name = "Test Alternative #00_A"
    /\ emitted[2].name = "Test Alternative #00_A"
    /\ emitted[3].name = "Test Alternative #10_A"
    /\ emitted[4].name = "Test Alternative #10_A"

(***************************************************************************)
(* Properties of registration (checked under SpecReg).                     *)
(***************************************************************************)
\* the step is a call of op that returned or panicked
IsCall(op) == lastCall' # lastCall /\ lastCall'.op = op

\* a TestCase as the registration calls allocate it
FreshTestCase(name) ==
    [TestName |-> name, StateBuilder |-> [op |-> "nil", arg |-> ""],
     SpecificBuilder |-> [op |-> "nil", arg |-> ""], Assertion |-> "none"]

\* C19: Register(name) appends one stage at the end of the registry, holding
\* exactly one alternative, a new TestCase named name with no setups and no
\* assertion; the handle it returns is that stored alternative, the one every
\* generated path then has at the new stage; the earlier stages, their
\* alternatives (with all their fields) and their order are unchanged; no
\* other operation adds a stage.
C19_RegisterAppendsOneStage ==
    [][LET n == Len(TestCaseSets)
           h == lastCall'.ret
       IN /\ IsCall("Register") =>
                /\ ~lastCall'.panic
                /\ Len(TestCaseSets') = n + 1
                /\ SubSeq(TestCaseSets', 1, n) = TestCaseSets
                /\ TestCaseSets'[n + 1] = <<h>>
                /\ h = Len(heap) + 1
                /\ Len(heap') = Len(heap) + 1
                /\ heap'[h] = FreshTestCase(lastCall'.name)
                /\ \A k \in 1..Len(heap) : heap'[k] = heap[k]
                /\ \A t \in 1..Len(GenerateTestSets(TestCaseSets')) :
                      GenerateTestSets(TestCaseSets')[t].TestCases[n + 1] = h
          /\ Len(TestCaseSets') # n => IsCall("Register")]_vars

\* Register was called on a registry whose only stage has two alternatives,
\* the first with a StateBuilder
C19_Witness ==
    /\ lastCall.op = "Register"
    /\ lastCall.ret = 3
    /\ TestCaseSets = <<<<1, 2>>, <<3>>>>
    /\ heap[1].StateBuilder # NilFunc
    /\ heap[3] = NewTestCase(lastCall.name)

\* C20: RegisterAlternative(name), called when at least one stage exists,
\* appends a new TestCase named name (no setups, no assertion) as the last
\* alternative of the most recently created stage only: the number of
\* stages, every earlier stage and the existing alternatives of the last
\* stage (with all their fields) are unchanged, and the handle returned is
\* the stored alternative.
C20_RegisterAlternativeAppendsToLastStage ==
    [][LET n == Len(TestCaseSets)
           h == lastCall'.ret
       IN (IsCall("RegisterAlternative") /\ n >= 1) =>
             /\ ~lastCall'.panic
             /\ Len(TestCaseSets') = n
             /\ \A k \in 1..(n - 1) : TestCaseSets'[k] = TestCaseSets[k]
             /\ TestCaseSets'[n] = Append(TestCaseSets[n], h)
             /\ h = Len(heap) + 1
             /\ Len(heap') = Len(heap) + 1
             /\ heap'[h] = FreshTestCase(lastCall'.name)
             /\ \A k \in 1..Len(heap) : heap'[k] = heap[k]]_vars

\* RegisterAlternative was called on a registry of two stages, the first
\* with a StateBuilder
C20_Witness ==
    /\ lastCall.op = "RegisterAlternative"
    /\ ~lastCall.panic
    /\ lastCall.ret = 3
    /\ TestCaseSets = <<<<1>>, <<2, 3>>>>
    /\ heap[1].StateBuilder # NilFunc
    /\ heap[3] = NewTestCase(lastCall.name)

\* C21: RegisterAlternative called while no stage is registered panics: it
\* returns no handle, and the registry is as empty afterwards as before (no
\* stage, no alternative); it panics in no other case.
C21_AlternativeWithoutStagePanics ==
    /\ [][IsCall("RegisterAlternative") =>
             /\ lastCall'.panic <=> Len(TestCaseSets) = 0
             /\ lastCall'.panic =>
                   /\ lastCall'.ret = 0
                   /\ TestCaseSets' = <<>>
                   /\ heap' = heap]_vars
    /\ [](lastCall.panic => lastCall.op = "RegisterAlternative")

C21_Witness ==
    /\ lastCall.op = "RegisterAlternative"
    /\ lastCall.panic
    /\ lastCall.name = "B"
    /\ TestCaseSets = <<>>
    /\ heap = <<>>

RECURSIVE TuplesFrom(_, _, _)
\* the tuples the counter of a radix list holds from idx on, up to the first
\* AddOne that returns true (at most n of them)
TuplesFrom(idx, radix, n) ==
    IF n = 0 THEN <<>>
    ELSE LET r == AddOne(idx, radix) IN
         IF r.isDone THEN <<idx>>
         ELSE <<idx>> \o TuplesFrom(r.currIndexes, radix, n - 1)

\* C22: after any sequence of Register, RegisterAlternative (failed calls
\* included) and With* calls, every stage holds at least one alternative;
\* hence every radix the counter gets from the registry is >= 1, and every
\* index GenerateTestSets looks up (every tuple the counter holds during the
\* enumeration) is within the alternatives of its stage.
C22_EveryStageHasAnAlternative ==
    /\ \A k \in 1..Len(TestCaseSets) : Len(TestCaseSets[k]) >= 1
    /\ LET radix == [k \in 1..Len(TestCaseSets) |-> Len(TestCaseSets[k])]
           tuples == TuplesFrom([k \in 1..Len(radix) |-> 0], radix, Product(radix))
       IN \A t \in 1..Len(tuples) :
             \A k \in 1..Len(radix) :
                /\ radix[k] >= 1
                /\ tuples[t][k] + 1 \in DOMAIN TestCaseSets[k]

\* two stages, the second with two alternatives, the last of them added
\* after a mutator call
C22_Witness ==
    /\ TestCaseSets = <<<<1>>, <<2, 3>>>>
    /\ withCalls >= 1
    /\ lastCall.op = "RegisterAlternative"
    /\ ~lastCall.panic

\* C23: a With* mutator stores the given value in its own field of the
\* TestCase it is called on, whatever the field held before, and returns that
\* same TestCase: the TestName and the two other fields of that TestCase,
\* every other TestCase and the stages are unchanged, and no TestCase is
\* added, so a chain of mutators works on the one TestCase of the registry.
C23_MutatorWritesOnlyItsField ==
    [][LET ts == lastCall'.ret
           others(f1, f2) ==
              /\ ts \in 1..Len(heap)
              /\ Len(heap') = Len(heap)
              /\ \A k \in 1..Len(heap) : k # ts => heap'[k] = heap[k]
              /\ heap'[ts].TestName = heap[ts].TestName
              /\ f1
              /\ f2
              /\ TestCaseSets' = TestCaseSets
              /\ ~lastCall'.panic
       IN /\ IsCall("WithStateBuilder") =>
                /\ others(heap'[ts].SpecificBuilder = heap[ts].SpecificBuilder,
                          heap'[ts].Assertion = heap[ts].Assertion)
                /\ heap'[ts].StateBuilder = lastCall'.builder
          /\ IsCall("WithSpecificBuilder") =>
                /\ others(heap'[ts].StateBuilder = heap[ts].StateBuilder,
                          heap'[ts].Assertion = heap[ts].Assertion)
                /\ heap'[ts].SpecificBuilder = lastCall'.builder
          /\ IsCall("WithAssertion") =>
                /\ others(heap'[ts].StateBuilder = heap[ts].StateBuilder,
                          heap'[ts].SpecificBuilder = heap[ts].SpecificBuilder)
                /\ heap'[ts].Assertion = lastCall'.assertion
          /\ (heap' # heap /\ Len(heap') = Len(heap)) =>
                lastCall'.op \in {"WithStateBuilder", "WithSpecificBuilder",
                                  "WithAssertion"}]_vars

\* a chain of two mutators on the second TestCase of the registry
C23_Witness ==
    /\ Len(heap) = 2
    /\ withCalls = 2
    /\ lastCall.op = "WithAssertion"
    /\ lastCall.ret = 2
    /\ heap[2].Assertion = "assert2"
    /\ heap[2].SpecificBuilder = SetFunc("-")
    /\ heap[2].StateBuilder = NilFunc
    /\ heap[1] = NewTestCase(heap[1].TestName)


\* C24: TestDataFromSlice returns ErrNoTestsDefined for an empty slice,
\* whatever the index, and ErrIndexOutOfRange for a non-empty slice and an
\* index < 0 or >= its length; in both cases the returned TestData has
\* zero-valued SUT and state and the call has invoked no StateBuilder and no
\* SpecificBuilder.
C24_SliceErrors ==
    /\ [](\A c \in 1..Len(sliceCalls) :
            LET i == sliceCalls[c].testIndex
                r == sliceCalls[c].ret
            IN /\ Len(tests) = 0 => r.err = ErrNoTestsDefined
               /\ (Len(tests) > 0 /\ (i < 0 \/ i >= Len(tests))) =>
                     r.err = ErrIndexOutOfRange
               /\ r.err # "nil" =>
                     /\ r.data.SUT = ""
                     /\ r.data.State = 0
                     /\ r.log = <<>>
                     /\ ~r.panicked)
    /\ [][(Len(sliceCalls') = Len(sliceCalls) + 1
              /\ Last(sliceCalls').ret.err # "nil") =>
                 setupCalls' = setupCalls]_vars

\* a slice whose items all have builders, called with an index below zero and
\* with the index one past its last item
C24_Witness ==
    /\ Len(tests) = 2
    /\ \A k \in 1..2 : tests[k].StateBuilder # NilFunc /\ tests[k].SpecificBuilder # NilFunc
    /\ Len(sliceCalls) = 2
    /\ sliceCalls[1].testIndex = -1
    /\ sliceCalls[2].testIndex = 2
    /\ sliceCalls[1].ret.err = ErrIndexOutOfRange
    /\ sliceCalls[2].ret.err = ErrIndexOutOfRange
    /\ setupCalls = 0

RECURSIVE StateCallsOf(_, _)
\* the calls of the non-nil StateBuilders of items 1..n, in increasing order
StateCallsOf(items, n) ==
    IF n = 0 THEN <<>>
    ELSE StateCallsOf(items, n - 1) \o
         (IF items[n].StateBuilder = NilFunc THEN <<>>
          ELSE <<[kind |-> "state", testcase |-> n, f |-> items[n].StateBuilder]>>)

\* the calls item n of the slice stands for: the StateBuilders of items 1..n,
\* then its own SpecificBuilder
ItemCalls(items, n) ==
    StateCallsOf(items, n) \o
    (IF items[n].SpecificBuilder = NilFunc THEN <<>>
     ELSE <<[kind |-> "specific", testcase |-> n, f |-> items[n].SpecificBuilder]>>)

\* C25: for a valid index i, TestDataFromSlice starts from zero-valued SUT
\* and state, invokes the non-nil StateBuilders of items 0..i in increasing
\* order, then the SpecificBuilder of item i if non-nil, and returns the
\* resulting SUT and state with item i's Assertion; in any sequence of calls
\* each call returns what a single call for its index returns.
C25_SliceBuildsCumulatively ==
    \A c \in 1..Len(sliceCalls) :
        LET i == sliceCalls[c].testIndex
            r == sliceCalls[c].ret
        IN (0 <= i /\ i < Len(tests)) =>
              LET calls == ItemCalls(tests, i + 1)
                  loc == ReplayLog(calls)
              IN /\ r.err = "nil"
                 /\ ~r.panicked
                 /\ r.log = calls
                 /\ r.data = [SUT |-> loc.sut, State |-> loc.state,
                              Assert_ |-> tests[i + 1].Assertion]
                 /\ \A d \in 1..Len(sliceCalls) :
                       sliceCalls[d].testIndex = i => sliceCalls[d].ret = r

\* index 2 of a three-item slice, then index 0: the second call does not
\* start from what the first left
C25_Witness ==
    /\ Len(tests) = 3
    /\ \A k \in 1..3 : tests[k].StateBuilder # NilFunc
    /\ tests[3].SpecificBuilder = NilFunc
    /\ tests[1].SpecificBuilder = NilFunc
    /\ Len(sliceCalls) = 2
    /\ sliceCalls[1].testIndex = 2
    /\ sliceCalls[1].ret.data = [SUT |-> "abc", State |-> 3, Assert_ |-> "assert3"]
    /\ sliceCalls[2].testIndex = 0
    /\ sliceCalls[2].ret.data = [SUT |-> "a", State |-> 1, Assert_ |-> "assert1"]


\* the table a registry without alternatives stands for: item k carries the
\* name, the builders and the Assertion of the TestCase of stage k
ItemsOf ==
    [k \in 1..Len(TestCaseSets) |->
        LET c == heap[TestCaseSets[k][1]] IN
        [Name |-> c.TestName, StateBuilder |-> c.StateBuilder,
         SpecificBuilder |-> c.SpecificBuilder, Assertion |-> c.Assertion]]

\* a log of a build closure with every TestCase replaced by its position in
\* the path P
ByPosition(log, P) ==
    [k \in 1..Len(log) |->
        [kind |-> log[k].kind,
         testcase |-> CHOOSE j \in 1..Len(P) : P[j] = log[k].testcase,
         f |-> log[k].f]]

\* C26: for a registry built with Register only, the i-th pair Tests() emits
\* has the name of item i of the corresponding table, and an invocation of its
\* builder makes the same setup calls in the same order and returns the same
\* SUT, state and assertion as TestDataFromSlice(i, items); a finished
\* iteration has emitted one pair per item.
C26_FluentAndTableAgree ==
    (\A k \in 1..Len(TestCaseSets) : Len(TestCaseSets[k]) = 1) =>
        /\ \A e \in 1..Len(emitted) :
              /\ e <= Len(ItemsOf)
              /\ emitted[e].name = ItemsOf[e].Name
        /\ iter.pc = "done" => Len(emitted) = Len(ItemsOf)
        /\ \A n \in 1..Len(builds) :
              LET b == builds[n]
                  p == emitted[b.pair]
                  r == TestDataFromSlice(b.pair - 1, ItemsOf)
              IN /\ r.err = "nil"
                 /\ IsPrefix(ByPosition(b.log, p.testCases), r.log)
                 /\ b.pc = "done" =>
                       /\ ByPosition(b.log, p.testCases) = r.log
                       /\ b.result = r.data

\* three registered stages, all with both builders: the builder of the third
\* pair has returned what TestDataFromSlice(2, items) returns
C26_Witness ==
    /\ Len(TestCaseSets) = 3
    /\ \A k \in 1..3 :
          /\ Len(TestCaseSets[k]) = 1
          /\ heap[TestCaseSets[k][1]].StateBuilder # NilFunc
          /\ heap[TestCaseSets[k][1]].SpecificBuilder # NilFunc
    /\ Len(emitted) = 3
    /\ emitted[3].name = "3"
    /\ \E n \in 1..Len(builds) :
          /\ builds[n].pair = 3
          /\ builds[n].pc = "done"
          /\ Len(builds[n].log) = 4
          /\ builds[n].result = TestDataFromSlice(2, ItemsOf).data
          /\ builds[n].result = [SUT |-> "-", State |-> 3, Assert_ |-> "assert3"]


\* the setup calls of the builder for position i of path P as the README's
\* schematic has them: the StateBuilders of the positions before i only
ReadmeCalls(P, i) ==
    CumulativeCalls(P, i - 1) \o CallOf("specific", P[i], heap[P[i]].SpecificBuilder)

OfKind(log, kind) == SelectSeq(log, LAMBDA c : c.kind = kind)

SomeSetupFails(P, i) ==
    \/ \E j \in 1..i : heap[P[j]].StateBuilder.op = "panic"
    \/ heap[P[i]].SpecificBuilder.op = "panic"

\* the entries of a log that are calls of a panicking setup
FailingEntries(log) == {k \in 1..Len(log) : log[k].f.op = "panic"}

\* C28: a panic of a user-supplied setup is not caught: the build stops at
\* the failing setup (the last call it has made), runs no later setup and
\* returns no TestData; a build for position i returns exactly when no
\* StateBuilder of positions 0..i and not the SpecificBuilder of i panics,
\* whatever other builds did; an aborted build changes nothing of another
\* build.  TestDataFromSlice over the same items panics for the same indices.
C28_SetupFailureAbortsOnlyItsBuild ==
    /\ [](\A n \in 1..Len(builds) :
            LET b == builds[n]
                p == emitted[b.pair]
                expected == ExpectedCalls(p.testCases, p.i)
            IN /\ IsPrefix(b.log, expected)
               /\ b.pc = "done" =>
                     /\ ~SomeSetupFails(p.testCases, p.i)
                     /\ FailingEntries(b.log) = {}
                     /\ b.log = expected
               /\ b.pc = "panicked" =>
                     /\ SomeSetupFails(p.testCases, p.i)
                     /\ FailingEntries(b.log) = {Len(b.log)}
                     /\ b.result = ZeroTestData
               /\ b.pc \in {"state", "specific"} => FailingEntries(b.log) = {})
    /\ [](\A i \in 1..Len(TestCaseSets) :
            LET r == TestDataFromSlice(i - 1, ItemsOf) IN
            /\ r.panicked <=> SomeSetupFails([k \in 1..Len(TestCaseSets) |-> k], i)
            /\ r.panicked => FailingEntries(r.log) = {Len(r.log)}
            /\ ~r.panicked => r.err = "nil" /\ FailingEntries(r.log) = {})
    /\ [][\A n \in 1..Len(builds) :
            /\ builds[n].pc = "panicked" => builds'[n] = builds[n]
            /\ builds'[n] # builds[n] =>
                  \A m \in 1..Len(builds) : m # n => builds'[m] = builds[m]]_vars

\* the SpecificBuilder of the second test panics: its build has aborted
\* there, and the build of the third test, started after it, has run all
\* three StateBuilders and returned
C28_Witness ==
    /\ Len(TestCaseSets) = 3
    /\ \A k \in 1..3 : heap[k].StateBuilder = AppendFunc(Letter(k))
    /\ heap[2].SpecificBuilder = PanicFunc("boom-in-specificbuilder")
    /\ heap[3].SpecificBuilder = NilFunc
    /\ Len(builds) = 2
    /\ builds[1].pair = 2
    /\ builds[1].pc = "panicked"
    /\ Len(builds[1].log) = 3
    /\ builds[2].pair = 3
    /\ builds[2].pc = "done"
    /\ builds[2].result = [SUT |-> "abc", State |-> 3, Assert_ |-> "assert3"]


\* the positions of the tuple idx whose index is below radix - 1
BelowMax(idx, radix) == {q \in 1..Len(idx) : idx[q] < radix[q] - 1}

\* the least element of a non-empty set of positions
LowestOf(S) == CHOOSE q \in S : \A r \in S : q <= r

\* C29: an AddOne call that returns false increases the index at the lowest
\* position p whose value is below radix_p - 1 by exactly one, resets every
\* index at a position below p to zero and leaves every index at a position
\* above p unchanged; no AddOne call modifies the radix list.
C29_AddOneFrame ==
    [][Len(returned') = Len(returned) + 1 =>
          /\ alternativeCountList' = alternativeCountList
          /\ Len(currIndexes') = Len(currIndexes)
          /\ ~Last(returned') =>
                /\ BelowMax(currIndexes, alternativeCountList) # {}
                /\ LET p == LowestOf(BelowMax(currIndexes, alternativeCountList)) IN
                   \A q \in 1..Len(currIndexes) :
                      currIndexes'[q] = IF q < p THEN 0
                                        ELSE IF q = p THEN currIndexes[q] + 1
                                        ELSE currIndexes[q]]_vars

\* radices (2,2,3,2): the call on (1,1,0,1) has returned false and left
\* (0,0,1,1)
C29_Witness ==
    /\ alternativeCountList = <<2, 2, 3, 2>>
    /\ returned # <<>>
    /\ ~Last(returned)
    /\ Last(visited) = <<1, 1, 0, 1>>
    /\ currIndexes = <<0, 0, 1, 1>>

\* C30: after NewCurrIndexes and any number of AddOne calls, calls made after
\* AddOne has returned true included, the tuple is as long as the radix list
\* and every index i_k satisfies 0 <= i_k < radix_k (all radices >= 1).
C30_IndexesWithinRadix ==
    (\A k \in 1..Len(alternativeCountList) : alternativeCountList[k] >= 1) =>
        /\ Len(currIndexes) = Len(alternativeCountList)
        /\ DOMAIN currIndexes = DOMAIN alternativeCountList
        /\ \A k \in 1..Len(currIndexes) :
              /\ 0 <= currIndexes[k]
              /\ currIndexes[k] < alternativeCountList[k]

\* radices (2,3): AddOne has returned true and has been called again
C30_Witness ==
    /\ alternativeCountList = <<2, 3>>
    /\ NumDone >= 2
    /\ currIndexes = <<1, 2>>


RECURSIVE RenderedUpTo(_, _)
\* the decimal renderings of tuple[1..n], one after the other
RenderedUpTo(tuple, n) ==
    IF n = 0 THEN "" ELSE RenderedUpTo(tuple, n - 1) \o Itoa(tuple[n])

\* C31: the label is the concatenation, in position order, of each index in
\* decimal, without separator or padding, and reading it leaves the counter
\* as it was; with every radix <= 10 the label has one character per stage,
\* distinct tuples have distinct labels and the labels of one enumeration are
\* pairwise distinct.
C31_LabelIsConcatenatedDigits ==
    /\ [](\A k \in 1..Len(labels) :
            /\ labels[k] = RenderedUpTo(visited[k], Len(visited[k]))
            /\ (\A q \in 1..Len(alternativeCountList) : alternativeCountList[q] <= 10) =>
                  /\ Len(labels[k]) = Len(alternativeCountList)
                  /\ \A q \in 1..Len(visited[k]) :
                        SubSeq(labels[k], q, q) = Digit(visited[k][q])
                  /\ \A j \in 1..Len(labels) :
                        visited[j] # visited[k] => labels[j] # labels[k])
    /\ []((\A q \in 1..Len(alternativeCountList) : alternativeCountList[q] <= 10) =>
            Cardinality({labels[k] : k \in 1..EnumCalls}) = EnumCalls)
    /\ [][Len(labels') = Len(labels) + 1 =>
            /\ Last(visited') = currIndexes
            /\ Last(labels') = RenderedUpTo(currIndexes, Len(currIndexes))
            /\ currIndexes' = AddOne(currIndexes, alternativeCountList).currIndexes
            /\ alternativeCountList' = alternativeCountList]_vars

\* radices (1,3,1,2) enumerated to the end: the six labels of the test table
C31_Witness ==
    /\ alternativeCountList = <<1, 3, 1, 2>>
    /\ Len(labels) = 6
    /\ labels = <<"0000", "0100", "0200", "0001", "0101", "0201">>
    /\ Last(returned)


\* every index of the tuple equals its radix - 1
AtLastTuple(tuple, radix) == \A q \in 1..Len(tuple) : tuple[q] = radix[q] - 1

\* C32: once AddOne has returned true every later call returns true and
\* leaves the tuple unchanged; AddOne returns true exactly when every index
\* equals radix_k - 1 before the call, so for an empty radix list the first
\* call returns true.
C32_CompletionIsAbsorbing ==
    /\ [](\A k \in 1..Len(returned) :
            /\ returned[k] <=> AtLastTuple(visited[k], alternativeCountList)
            /\ returned[k] =>
                  \A l \in (k + 1)..Len(returned) :
                     /\ returned[l]
                     /\ visited[l] = visited[k])
    /\ []((returned # <<>> /\ Last(returned)) => currIndexes = Last(visited))
    /\ []((alternativeCountList = <<>> /\ returned # <<>>) => returned[1])
    /\ [][(returned # <<>> /\ Last(returned) /\ Len(returned') = Len(returned) + 1) =>
            /\ Last(returned')
            /\ currIndexes' = currIndexes]_vars

\* radices (2,3): the sixth call has returned true, and so have two calls
\* made after it, the tuple staying (1,2)
C32_Witness ==
    /\ alternativeCountList = <<2, 3>>
    /\ returned = <<FALSE, FALSE, FALSE, FALSE, FALSE, TRUE, TRUE, TRUE>>
    /\ visited[6] = <<1, 2>>
    /\ visited[8] = <<1, 2>>
    /\ currIndexes = <<1, 2>>


\* the pairs d and e stand for the same position of Paths that select the
\* same alternatives up to that position
SamePrefix(d, e) ==
    /\ emitted[d].i = emitted[e].i
    /\ SubSeq(emitted[d].testCases, 1, emitted[d].i) =
          SubSeq(emitted[e].testCases, 1, emitted[e].i)

\* C33: the result of the builder at position i of a Path depends only on
\* the alternatives the Path selects at stages 0..i: builders of two Paths
\* that agree up to position i make the same setup calls and return equal
\* SUT, state and assertion, whatever the Paths select at later stages.
C33_ResultDependsOnPrefixOnly ==
    \A m, n \in 1..Len(builds) :
        (/\ builds[m].pc = "done"
         /\ builds[n].pc = "done"
         /\ SamePrefix(builds[m].pair, builds[n].pair)) =>
            /\ builds[m].result = builds[n].result
            /\ builds[m].log = builds[n].log

\* one alternative at stage 0, two at stage 1, all with their own setups: the
\* builders of position 0 of both Paths have returned the same result
C33_Witness ==
    /\ TestCaseSets = <<<<1>>, <<2, 3>>>>
    /\ \A k \in 1..3 : heap[k].StateBuilder # NilFunc /\ heap[k].SpecificBuilder # NilFunc
    /\ Len(emitted) >= 3
    /\ emitted[1].testCases = <<1, 2>>
    /\ emitted[3].testCases = <<1, 3>>
    /\ Len(builds) = 2
    /\ builds[1].pair = 1
    /\ builds[2].pair = 3
    /\ builds[1].pc = "done"
    /\ builds[2].pc = "done"
    /\ builds[1].result = [SUT |-> "-", State |-> 1, Assert_ |-> "assert1"]
    /\ builds[2].result = builds[1].result


\* the Paths of a registry: one per tuple, in the order of the counter
PathsOfRegistry(sets) ==
    LET counts == [k \in 1..Len(sets) |-> Len(sets[k])] IN
    [t \in 1..Product(counts) |->
        [q \in 1..Len(sets) |-> sets[q][TupleOfPath(counts, t - 1)[q] + 1]]]

\* C34: the Paths of an iteration are computed once, when the consumer
\* starts ranging, from the registry as it is then (Tests() itself computes
\* nothing); Register and RegisterAlternative calls made afterwards change
\* neither the Paths of the iteration nor the pairs emitted and still to be
\* emitted: the e-th pair is the e-th position of the Paths computed at the
\* start, under the name it has there.
C34_PathsFixedAtIterationStart ==
    /\ [][/\ (iter.pc = "none" /\ iter'.pc = "created") => iter'.testSets = <<>>
          /\ (iter.pc = "created" /\ iter'.pc # "created") =>
                /\ Len(iter'.testSets) = Len(PathsOfRegistry(TestCaseSets))
                /\ \A t \in 1..Len(iter'.testSets) :
                      iter'.testSets[t].TestCases = PathsOfRegistry(TestCaseSets)[t]
                /\ iter'.nStages = Len(TestCaseSets)
          /\ IterStarted =>
                /\ iter'.testSets = iter.testSets
                /\ iter'.nStages = iter.nStages
                /\ Len(emitted) <= Len(emitted')
                /\ SubSeq(emitted', 1, Len(emitted)) = emitted
          /\ (IterStarted /\ (IsCall("Register") \/ IsCall("RegisterAlternative"))) =>
                UNCHANGED <<iter, emitted, yieldReturned>>]_vars
    /\ [](IterStarted =>
            LET n == iter.nStages IN
            /\ Len(emitted) <= Len(iter.testSets) * n
            /\ iter.pc = "done" => Len(emitted) = Len(iter.testSets) * n
            /\ \A e \in 1..Len(emitted) :
                  LET t == ((e - 1) \div n) + 1
                      i == ((e - 1) % n) + 1
                  IN /\ t <= Len(iter.testSets)
                     /\ Len(iter.testSets[t].TestCases) = n
                     /\ emitted[e].testCases = iter.testSets[t].TestCases
                     /\ emitted[e].i = i
                     /\ emitted[e].name =
                           TestNameOf(iter.testSets[t], iter.testSets[t].TestCases[i]))

\* two stages were registered when the consumer started ranging and a third
\* has been registered while it consumes: the second and last pair of the
\* Path computed at the start is with the consumer
C34_Witness ==
    /\ iter.pc = "yielded"
    /\ iter.nStages = 2
    /\ Len(TestCaseSets) = 3
    /\ lastCall.op = "Register"
    /\ Len(iter.testSets) = 1
    /\ Len(emitted) = 2
    /\ emitted[2].testCases = <<1, 2>>
    /\ emitted[2].name = heap[2].TestName


\* the setup the loop pass an invocation is about to make reads, in the
\* registry as it is now
SetupReadNow(b) ==
    LET testcase == emitted[b.pair].testCases[b.j] IN
    IF b.pc = "state"
    THEN CallOf("state", testcase, heap[testcase].StateBuilder)
    ELSE CallOf("specific", testcase, heap[testcase].SpecificBuilder)

\* C35: a builder reads the setups and the assertion of its alternatives
\* when it is invoked, not when its pair is emitted: every loop pass calls
\* the setup its TestCase has at that moment (what the last With* call on it
\* stored) and the returned Assert is the Assertion curcase has when the
\* invocation returns; the emitted name is fixed at emission and no later
\* With* call changes a pair.
C35_BuilderReadsRegistryWhenInvoked ==
    /\ [][\A n \in 1..Len(builds) :
            builds'[n] # builds[n] =>
               /\ builds'[n].log = builds[n].log \o SetupReadNow(builds[n])
               /\ builds'[n].pc = "done" =>
                     builds'[n].result.Assert_ =
                        heap[emitted[builds[n].pair].curcase].Assertion]_vars
    /\ [][/\ IsCall("WithStateBuilder") =>
                heap'[lastCall'.ret].StateBuilder = lastCall'.builder
          /\ IsCall("WithSpecificBuilder") =>
                heap'[lastCall'.ret].SpecificBuilder = lastCall'.builder
          /\ IsCall("WithAssertion") =>
                heap'[lastCall'.ret].Assertion = lastCall'.assertion
          /\ \A e \in 1..Len(emitted) : emitted'[e] = emitted[e]]_vars
    /\ [](\A e \in 1..Len(emitted) :
            emitted[e].name =
               LET tset == iter.testSets[( (e - 1) \div iter.nStages) + 1] IN
               IF tset.TestSetName # ""
               THEN "Test Alternative #" \o tset.TestSetName \o "_" \o
                    heapAtYield[e][emitted[e].curcase].TestName
               ELSE heapAtYield[e][emitted[e].curcase].TestName)

\* the pair of the second of two stages was emitted while nothing was
\* configured; a StateBuilder was then set on the first stage and an
\* Assertion on the second, and the builder invoked after that has called
\* the one and returned the other
C35_Witness ==
    /\ TestCaseSets = <<<<1>>, <<2>>>>
    /\ Len(emitted) = 2
    /\ heapAtYield[2][1].StateBuilder = NilFunc
    /\ heapAtYield[2][2].Assertion = ZeroAssert
    /\ emitted[2].name = "2"
    /\ heap[1].StateBuilder = AppendFunc("a")
    /\ heap[2].Assertion = "assert1"
    /\ \E n \in 1..Len(builds) :
          /\ builds[n].pair = 2
          /\ builds[n].pc = "done"
          /\ builds[n].log = <<[kind |-> "state", testcase |-> 1, f |-> AppendFunc("a")]>>
          /\ builds[n].result = [SUT |-> "a", State |-> 1, Assert_ |-> "assert1"]


\* the test sets of a registry: its Paths in the order of the counter, each
\* labelled with its tuple when some stage has several alternatives
TestSetsOfRegistry(sets) ==
    LET counts == [k \in 1..Len(sets) |-> Len(sets[k])] IN
    [t \in 1..Product(counts) |->
        [TestCases |-> PathsOfRegistry(sets)[t],
         TestSetName |->
            IF \E k \in 1..Len(sets) : counts[k] > 1
            THEN RenderedUpTo(TupleOfPath(counts, t - 1), Len(sets))
            ELSE ""]]

\* C36: GenerateTestSets and Tests() leave the registry as it is (stages,
\* alternatives, their order and their fields); with no registration in
\* between, every GenerateTestSets call and every start of a range return the
\* same Paths in the same order with the same labels, referring to the
\* stored alternatives, and a second range over Tests() emits the same pairs
\* under the same names in the same order as the first, as far as both go.
C36_GenerationIsReadOnlyAndRepeatable ==
    /\ [][(generated' # generated \/ iter' # iter \/ emitted' # emitted) =>
             UNCHANGED <<heap, TestCaseSets>>]_vars
    /\ [](generated.called =>
            /\ generated.sets = TestCaseSets
            /\ generated.testSets = TestSetsOfRegistry(TestCaseSets))
    /\ [](IterStarted => iter.testSets = TestSetsOfRegistry(TestCaseSets))
    /\ []((generated.called /\ IterStarted) => iter.testSets = generated.testSets)
    /\ [](\A e \in (iter.from + 1)..Len(emitted) :
            e - iter.from <= iter.from => emitted[e] = emitted[e - iter.from])
    /\ []((iter.from > 0 /\ iter.pc = "done"
             /\ \A k \in 1..iter.from : yieldReturned[k]) =>
               /\ Len(emitted) = 2 * iter.from
               /\ [k \in 1..iter.from |-> emitted[k].name] =
                     [k \in 1..iter.from |-> emitted[iter.from + k].name])

\* stages {1, 2} and {3}: GenerateTestSets has been called and the sequence
\* of Tests() ranged over to its end twice, four pairs each time
C36_Witness ==
    /\ TestCaseSets = <<<<1, 2>>, <<3>>>>
    /\ generated.called
    /\ Len(generated.testSets) = 2
    /\ generated.testSets[2].TestSetName = "10"
    /\ iter.pc = "done"
    /\ iter.from = 4
    /\ Len(emitted) = 8
    /\ \A k \in 1..8 : yieldReturned[k]
    /\ emitted[7].testCases = <<2, 3>>
    /\ emitted[7].name = emitted[3].name


\* what the flat builder has handed to yield after the answers the consumer
\* has given so far
FlatNow == FlatRange(FlatTestCases, 1, yieldReturned, <<>>)

\* C37: for a registry built by Register calls and With* configuration
\* alone, Tests() emits what the flat builder emits: one pair per registered
\* case, in registration order, under the unmodified TestName, stopping where
\* the flat builder stops when the consumer stops; every builder makes the
\* setup calls of the flat builder for its position, in the same order,
\* returns the same TestData, and aborts where it aborts.
C37_RefinesFlatBuilder ==
    (\A k \in 1..Len(TestCaseSets) : Len(TestCaseSets[k]) = 1) =>
        /\ IterStarted =>
              /\ iter.pc = FlatNow.pc
              /\ Len(emitted) = Len(FlatNow.emitted)
              /\ \A e \in 1..Len(emitted) :
                    /\ emitted[e].name = FlatNow.emitted[e].name
                    /\ emitted[e].i = FlatNow.emitted[e].i
                    /\ emitted[e].curcase = FlatNow.emitted[e].curcase
                    /\ emitted[e].name = heap[FlatTestCases[e]].TestName
        /\ iter.pc = "done" => Len(emitted) = Len(FlatTestCases)
        /\ \A n \in 1..Len(builds) :
              LET b == builds[n]
                  flat == FlatBuild(FlatTestCases, emitted[b.pair].i)
              IN /\ IsPrefix(b.log, flat.log)
                 /\ b.pc = "done" =>
                       /\ ~flat.panicked
                       /\ b.log = flat.log
                       /\ b.result = flat.data
                 /\ b.pc = "panicked" =>
                       /\ flat.panicked
                       /\ b.log = flat.log

\* three registered cases, the consumer stops at the second: both builders
\* have emitted two pairs, and the builder of the second pair has returned
\* what the flat one returns
C37_Witness ==
    /\ Len(TestCaseSets) = 3
    /\ \A k \in 1..3 : heap[k].StateBuilder = AppendFunc(Letter(k))
    /\ heap[2].SpecificBuilder = SetFunc("-")
    /\ yieldReturned = <<TRUE, FALSE>>
    /\ iter.pc = "stopped"
    /\ Len(emitted) = 2
    /\ FlatNow.pc = "stopped"
    /\ \E n \in 1..Len(builds) :
          /\ builds[n].pair = 2
          /\ builds[n].pc = "done"
          /\ Len(builds[n].log) = 3
          /\ builds[n].result = FlatBuild(FlatTestCases, 2).data
          /\ builds[n].result = [SUT |-> "-", State |-> 2, Assert_ |-> "assert2"]

=============================================================================
